---- MODULE Spec2Model ----
(***************************************************************************)
(* A model of travis-status: the polling of the Travis CI API              *)
(* (lib/travis-status-checker.js, queryWithWait) and the orchestration of  *)
(* one status check (index.js, travisStatus) over the git collaborator     *)
(* (lib/git-status-checker.js).                                            *)
(*                                                                         *)
(* Time is in milliseconds.  JavaScript values are tagged records; strings *)
(* whose characters matter (slugs, numeric strings) are sequences of       *)
(* one-character strings.                                                  *)
(***************************************************************************)
EXTENDS Integers, Sequences, FiniteSets, TLC

VARIABLES
    \* ---- one poll: queryWithWait ----
    pollKind,       \* which resource is polled: "repo", "branch" or "build"
    wait,           \* options.wait as the caller gave it (a JavaScript value)
    pollPc,         \* "start", "polling" (request in flight), "sleeping" (timer set), "settled"
    maxWaitMs,      \* Number(options.wait), or 0
    startMs,        \* Date.now() when the poll began
    nextWaitMs,     \* the delay of the most recent retry timer (halved start value at first)
    nowMs,          \* the clock: what Date.now() returns
    inFlight,       \* API requests issued and not yet answered
    timers,         \* retry timers set and not yet fired
    timerDue,       \* when the pending timer is due
    promise,        \* the poll's promise: pending, resolved with a value, rejected with an error
    requests,       \* number of query.get calls so far
    responses,      \* number of callbacks received so far
    timersSet,      \* number of setTimeout calls so far
    timersFired,    \* number of timers that fired so far
    lastResp,       \* the most recent callback's arguments
    pendingSeen,    \* number of received results whose state is a pending state
    slowLeft,       \* slow requests / late timers the environment may still produce
    \* ---- one status check: travisStatus ----
    options,        \* the caller's options: repo, storeRepo, branch, commit, interactive
    pc,             \* "start" (not yet called), "running", "done" (outcome delivered)
    outcome,        \* the promise travisStatus returns
    repoSlugP,      \* promise of the slug to query
    localCommitP,   \* promise of the local commit record, or no promise
    branchP,        \* promise of the branch name, or no promise
    slugForQueryP,  \* Promise.all([repoSlugP, localCommitP]) reduced to the slug
    resultP,        \* promise of the API result
    slugPc,         \* where the slug resolution stands
    carried,        \* the slug (or remote name) the slug resolution carries along
    hashPc,         \* resolveHash: "idle", "running", "done"
    branchPc,       \* detectBranch for options.branch === true: "idle", "running", "done"
    api,            \* the API query in progress, if any
    apiCalls,       \* the API queries made so far, in order
    repoResult,     \* the repository result kept for the merge with the build
    answers,        \* the bodies the API answered with so far, in order
    agent,          \* the keep-alive agent travisStatus made, if any
    destroyed,      \* number of agent.destroy() calls so far
    clientOpts,     \* the requestOpts the API client was constructed with
    gitCalls,       \* the git commands run so far, in order
    head,           \* the branch HEAD points to, or nothing when HEAD is detached
    configSlug,     \* the value of travis.slug in the git config, if set
    configWrites,   \* the values written to travis.slug so far, in order
    errLog,         \* what was written to the err stream so far, in order
    linesLeft,      \* lines the user may still enter at prompts
    \* ---- the input stream of a prompt: Shortline.prompt ----
    buffered,       \* the text in the stream's buffer that no read() has returned yet
    ended,          \* the stream has no more data to come
    response,       \* the text the waiting prompt has read so far, without a newline
    chunksLeft,     \* chunks of text the user may still send
    listeners,      \* the listeners of prompts on the stream: the waiting prompt's and those left behind
    \* ---- one run of the command: travisStatusCmd ----
    command,        \* the parsed command line, as it is passed to travisStatus
    exit,           \* the arguments the command's callback was called with, if it was
    outLog          \* what was written to the out stream so far, in order

pollVars == <<pollKind, wait, pollPc, maxWaitMs, startMs, nextWaitMs, nowMs,
              inFlight, timers, timerDue, promise, requests, responses,
              timersSet, timersFired, lastResp, pendingSeen, slowLeft>>

orchVars == <<options, pc, outcome, repoSlugP, localCommitP, branchP, slugForQueryP,
              resultP, slugPc, carried, hashPc, branchPc, api, apiCalls, repoResult,
              answers, agent, destroyed, clientOpts, gitCalls, head, configSlug,
              configWrites, errLog, linesLeft>>

\* the stream and what the waiting prompt has read from it
streamVars == <<buffered, ended, response, chunksLeft>>

promptVars == <<buffered, ended, response, chunksLeft, listeners>>

cmdVars == <<command, exit, outLog>>

vars == <<pollVars, orchVars, promptVars, cmdVars>>

-----------------------------------------------------------------------------
(* Bounds of the model *)

\* a poll is cut off after this many requests
MaxRequests == 8
\* at most this many requests are slow or timers late in one poll
MaxSlow == 2
\* at most this many lines are entered at the prompts of one status check
MaxLines == 3
\* the strings checked for the slug format have at most this many characters
MaxSlugLen == 4
\* at most this many chunks of text arrive on the input stream
MaxChunks == 2

-----------------------------------------------------------------------------
(* JavaScript numbers and the values options.wait may hold *)

Fin(n) == [k |-> "fin", n |-> n]
NaN == [k |-> "nan", n |-> 0]
PosInf == [k |-> "inf", n |-> 0]
NegInf == [k |-> "ninf", n |-> 0]

JsUndefined == [t |-> "undefined"]
JsNull == [t |-> "null"]
JsObject == [t |-> "object"]
JsNumber(x) == [t |-> "number", num |-> x]
JsString(s) == [t |-> "string", s |-> s]
JsBoolean(b) == [t |-> "boolean", b |-> b]

Digits == <<"0", "1", "2", "3", "4", "5", "6", "7", "8", "9">>

IsDigit(c) == \E i \in 1..10 : Digits[i] = c

DigitVal(c) == (CHOOSE i \in 1..10 : Digits[i] = c) - 1

RECURSIVE DecimalVal(_)
DecimalVal(s) ==
    IF s = <<>> THEN 0
    ELSE 10 * DecimalVal(SubSeq(s, 1, Len(s) - 1)) + DigitVal(s[Len(s)])

AllDigits(s) == Len(s) > 0 /\ \A i \in 1..Len(s) : IsDigit(s[i])

\* Number(string): the empty string is 0, a decimal literal (with an optional
\* sign) is its value, anything else is NaN.
StringToNumber(s) ==
    IF s = <<>> THEN Fin(0)
    ELSE IF AllDigits(s) THEN Fin(DecimalVal(s))
    ELSE IF s[1] = "-" /\ AllDigits(Tail(s)) THEN Fin(0 - DecimalVal(Tail(s)))
    ELSE IF s[1] = "+" /\ AllDigits(Tail(s)) THEN Fin(DecimalVal(Tail(s)))
    ELSE NaN

\* Number(value)
ToNumber(v) ==
    CASE v.t = "number" -> v.num
      [] v.t = "string" -> StringToNumber(v.s)
      [] v.t = "boolean" -> IF v.b THEN Fin(1) ELSE Fin(0)
      [] v.t = "null" -> Fin(0)
      [] OTHER -> NaN

\* the truthiness of a value, as `options.wait ?` tests it
ToBoolean(v) ==
    CASE v.t = "number" -> v.num.k \in {"inf", "ninf"} \/ (v.num.k = "fin" /\ v.num.n # 0)
      [] v.t = "string" -> v.s # <<>>
      [] v.t = "boolean" -> v.b
      [] v.t = "object" -> TRUE
      [] OTHER -> FALSE

\* faulty variant: no number is taken for NaN
IsNaN_Never(x) == FALSE

IsNaN(x) == x.k = "nan"

\* faulty variant: only finite negative numbers are refused, -Infinity passes
IsNegative_FiniteOnly(x) == x.k = "fin" /\ x.n < 0

\* x < 0
IsNegative(x) == x.k = "ninf" \/ (x.k = "fin" /\ x.n < 0)

\* faulty variant: the budget test is `<=`, so a poll retries once more at the deadline
LessThan_OrEqual(n, x) == x.k = "inf" \/ (x.k = "fin" /\ n <= x.n)

\* n < x, for an integer n
LessThan(n, x) == x.k = "inf" \/ (x.k = "fin" /\ n < x.n)

Min(a, b) == IF a <= b THEN a ELSE b

\* Math.min(a, b, x - n) for integers a, b, n and a number x that is not NaN
MinWithRemaining(a, b, x, n) ==
    IF x.k = "fin" THEN Min(Min(a, b), x.n - n) ELSE Min(a, b)

-----------------------------------------------------------------------------
(* Strings as sequences of characters, and the slug format *)

Whitespace == {" ", "\n"}

\* String.prototype.trimRight
RECURSIVE TrimRight(_)
TrimRight(s) ==
    IF s # <<>> /\ s[Len(s)] \in Whitespace THEN TrimRight(SubSeq(s, 1, Len(s) - 1))
    ELSE s

\* the truthiness of an option that is undefined, a string or true
Truthy(v) ==
    CASE v.t = "string" -> v.s # <<>>
      [] v.t = "boolean" -> v.b
      [] OTHER -> FALSE

\* faulty variant: the expression without its anchors, which finds a slug
\* anywhere in the string
SLUG_VALID_RE_Unanchored(s) ==
    \E i \in 2..(Len(s) - 1) :
        /\ s[i] = "/"
        /\ s[i - 1] # "/" /\ s[i - 1] \notin Whitespace
        /\ s[i + 1] # "/" /\ s[i + 1] \notin Whitespace

\* GitStatusChecker.SLUG_VALID_RE.test(s), SLUG_VALID_RE = /^[^\s\/]+\/[^\s\/]+$/
SLUG_VALID_RE(s) ==
    \E i \in 2..(Len(s) - 1) :
        /\ s[i] = "/"
        /\ \A j \in 1..Len(s) : j # i => (s[j] # "/" /\ s[j] \notin Whitespace)

InvalidSlugError(slug) ==
    [name |-> "InvalidSlugError", message |-> "GitHub repo name is invalid", slug |-> slug]

\* faulty variant: any string passes for a slug
checkSlugFormat_Unchecked(slug) == [threw |-> FALSE, v |-> slug]

\* GitStatusChecker.checkSlugFormat(slug): returns slug or throws InvalidSlugError
checkSlugFormat(slug) ==
    IF SLUG_VALID_RE(slug) THEN [threw |-> FALSE, v |-> slug]
    ELSE [threw |-> TRUE, e |-> InvalidSlugError(slug)]

-----------------------------------------------------------------------------
(* The path of a git URL and the slug at its end (detectSlug) *)

Letters == {"a", "b", "c", "d", "g", "h", "i", "n", "o", "p", "r", "s", "t", "u"}

IsAlnum(c) == c \in Letters \/ IsDigit(c)

\* a character of [A-Za-z0-9+.-]
IsSchemeChar(c) == IsAlnum(c) \/ c \in {"+", ".", "-"}

\* the index of the first character of s from index `from` on that is in
\* `chars`, or 0
FirstIndex(s, from, chars) ==
    IF \E i \in from..Len(s) : s[i] \in chars
    THEN CHOOSE i \in from..Len(s) :
             s[i] \in chars /\ \A j \in from..(i - 1) : s[j] \notin chars
    ELSE 0

From(s, i) == SubSeq(s, i, Len(s))

EndsWith(s, suffix) ==
    /\ Len(suffix) <= Len(s)
    /\ SubSeq(s, Len(s) - Len(suffix) + 1, Len(s)) = suffix

DotGit == <<".", "g", "i", "t">>

\* /^([A-Za-z0-9][A-Za-z0-9+.-]*)::(.*)$/: the index of the "::" of a foreign
\* URL for a remote helper, or 0
ForeignColon(gitUrl) ==
    LET c == FirstIndex(gitUrl, 1, {":"}) IN
    IF /\ c > 1
       /\ c < Len(gitUrl)
       /\ gitUrl[c + 1] = ":"
       /\ IsAlnum(gitUrl[1])
       /\ \A j \in 2..(c - 1) : IsSchemeChar(gitUrl[j])
    THEN c ELSE 0

SlashedProtocols == {<<"h", "t", "t", "p">>, <<"h", "t", "t", "p", "s">>,
                     <<"f", "t", "p">>, <<"f", "i", "l", "e">>}

\* url.parse(gitUrl): whether the URL has a protocol (/^[a-z0-9.+-]+:/i) and,
\* if so, its path: what follows the host, the host being what follows "//"
\* (or, for a protocol that takes no slashes, what follows the protocol) up to
\* the first "/"
UrlParse(gitUrl) ==
    LET c == FirstIndex(gitUrl, 1, {":"})
        hasProtocol == c > 1 /\ \A j \in 1..(c - 1) : IsSchemeChar(gitUrl[j])
        proto == SubSeq(gitUrl, 1, c - 1)
        afterProto == From(gitUrl, c + 1)
        slashes == Len(afterProto) >= 2 /\ afterProto[1] = "/" /\ afterProto[2] = "/"
        rest == IF slashes THEN From(afterProto, 3) ELSE afterProto
        hasHost == slashes \/ proto \notin SlashedProtocols
        hostEnd == FirstIndex(rest, 1, {"/"})
        pathname == IF ~hasHost THEN rest
                    ELSE IF hostEnd = 0 THEN <<>>
                    ELSE From(rest, hostEnd)
    IN  IF hasProtocol
        THEN [protocol |-> TRUE,
              path |-> IF pathname = <<>> /\ hasHost /\ rest # <<>> /\ proto \in SlashedProtocols
                       THEN <<"/">> ELSE pathname]
        ELSE [protocol |-> FALSE, path |-> <<>>]

\* /^([^@\/]+)@(\[[^]\/]+\]|[^:\/]+):(.*)$/: the index of the ":" that ends the
\* host of an SCP-like URL user@host:path, or 0
ScpColon(gitUrl) ==
    LET at == FirstIndex(gitUrl, 1, {"@", "/"})
        colon == IF at = 0 THEN 0 ELSE FirstIndex(gitUrl, at + 1, {":", "/"})
    IN  IF /\ at > 1
           /\ gitUrl[at] = "@"
           /\ colon > at + 1
           /\ gitUrl[colon] = ":"
        THEN colon ELSE 0

\* gitUrlPath(gitUrl): the path portion of a git URL
gitUrlPath(gitUrl) ==
    IF ForeignColon(gitUrl) # 0 THEN From(gitUrl, ForeignColon(gitUrl) + 2)
    ELSE IF UrlParse(gitUrl).protocol THEN UrlParse(gitUrl).path
    ELSE IF ScpColon(gitUrl) # 0 THEN From(gitUrl, ScpColon(gitUrl) + 1)
    ELSE gitUrl

\* the lazy [^\/]+? of the slug pattern on what follows the slash: the
\* shortest non-empty slash-free prefix followed by (?:\/?\.git)?$, or <<>>
LastSegment(r) ==
    LET slashFree(x) == x # <<>> /\ \A j \in 1..Len(x) : x[j] # "/"
        cut(n) == SubSeq(r, 1, Len(r) - n)
    IN  IF EndsWith(r, <<"/">> \o DotGit) /\ slashFree(cut(5)) THEN cut(5)
        ELSE IF EndsWith(r, DotGit) /\ slashFree(cut(4)) THEN cut(4)
        ELSE IF slashFree(r) THEN r
        ELSE <<>>

\* /([^\/]+\/[^\/]+?)(?:\/?\.git)?$/.exec(path): the leftmost match's group 1,
\* or no match
extractSlug(path) ==
    LET matchesAt(i) ==
            /\ path[i] # "/"
            /\ FirstIndex(path, i, {"/"}) # 0
            /\ LastSegment(From(path, FirstIndex(path, i, {"/"}) + 1)) # <<>>
    IN  IF \E i \in 1..Len(path) : matchesAt(i)
        THEN LET i == CHOOSE i \in 1..Len(path) :
                          matchesAt(i) /\ \A j \in 1..(i - 1) : ~matchesAt(j)
                 k == FirstIndex(path, i, {"/"})
             IN  [match |-> TRUE,
                  slug |-> SubSeq(path, i, k) \o LastSegment(From(path, k + 1))]
        ELSE [match |-> FALSE, slug |-> <<>>]

-----------------------------------------------------------------------------
(* lib/state-info.js and the pending classifiers *)

isPending == [created |-> TRUE, queued |-> TRUE, received |-> TRUE, started |-> TRUE]

\* isPending[state]: undefined (falsy) for a state the table does not hold
StateIsPending(state) == state \in DOMAIN isPending /\ isPending[state]

Returned(v) == [threw |-> FALSE, v |-> v]
Thrown == [threw |-> TRUE, v |-> FALSE]

\* reading a property of result.<key> throws when the result has no such key
branchIsPending(result) ==
    IF "branch" \in DOMAIN result THEN Returned(StateIsPending(result.branch.state))
    ELSE Thrown

buildIsPending(result) ==
    IF "build" \in DOMAIN result THEN Returned(StateIsPending(result.build.state))
    ELSE Thrown

repoIsPending(result) ==
    IF "repo" \in DOMAIN result THEN Returned(StateIsPending(result.repo.last_build_state))
    ELSE Thrown

\* faulty variant: a result without the expected key is taken as not pending
valueIsPending_Lenient(kind, result) ==
    IF kind \notin DOMAIN result THEN Returned(FALSE)
    ELSE CASE kind = "branch" -> branchIsPending(result)
           [] kind = "build" -> buildIsPending(result)
           [] OTHER -> repoIsPending(result)

valueIsPending(kind, result) ==
    CASE kind = "branch" -> branchIsPending(result)
      [] kind = "build" -> buildIsPending(result)
      [] OTHER -> repoIsPending(result)

-----------------------------------------------------------------------------
(* The inputs of a poll *)

POLL_TIME_START_MS == 4000
POLL_TIME_MAX_MS == 60000

PollKinds == {"repo", "branch", "build"}

WaitValues ==
    { JsUndefined, JsNull, JsObject,
      JsNumber(Fin(0)), JsNumber(Fin(4000)), JsNumber(Fin(10000)),
      JsNumber(Fin(200000)), JsNumber(Fin(0 - 5)),
      JsNumber(NaN), JsNumber(PosInf), JsNumber(NegInf),
      JsString(<<>>), JsString(<<"h", "i">>), JsString(<<"8", "0", "0", "0">>),
      JsString(<<"-", "5">>), JsBoolean(TRUE) }

ApiStates == {"created", "queued", "received", "started", "passed", "failed", "bogus"}

ApiResult(kind, state) ==
    CASE kind = "branch" -> [branch |-> [state |-> state]]
      [] kind = "build" -> [build |-> [state |-> state]]
      [] OTHER -> [repo |-> [last_build_state |-> state]]

\* a body that has none of the expected keys
NotFoundResult == [file |-> "not found"]

ApiErrors == {[name |-> "Error", message |-> "ECONNRESET"],
              [name |-> "Error", message |-> "500"]}

\* the (err, result) pairs a request may call back with
Responses(kind) ==
    {[t |-> "err", e |-> e] : e \in ApiErrors}
        \cup {[t |-> "ok", r |-> ApiResult(kind, s)] : s \in ApiStates}
        \cup {[t |-> "ok", r |-> NotFoundResult]}

NoResponse == [t |-> "none"]

Latencies == {0, 7000}
Lateness == {0, 1000}
StartTimes == {0, 1500}

Pending == [k |-> "pending"]
Resolved(v) == [k |-> "resolved", v |-> v]
Rejected(e) == [k |-> "rejected", e |-> e]

WaitTypeError == [name |-> "TypeError", message |-> "wait must be a number"]
WaitRangeError == [name |-> "RangeError", message |-> "wait must be non-negative"]
ClassifierError == [name |-> "TypeError", message |-> "Cannot read property of undefined"]

-----------------------------------------------------------------------------
(* queryWithWait: one poll of the API *)

\* `if (maxWaitMs)`
BudgetSet(x) == x.k = "inf" \/ (x.k = "fin" /\ x.n # 0)

\* faulty variant: a poll without wait gets the maximum poll interval as its budget
MaxWaitOf_DefaultBudget(w) == IF ToBoolean(w) THEN ToNumber(w) ELSE Fin(POLL_TIME_MAX_MS)

\* options && options.wait ? Number(options.wait) : 0
MaxWaitOf(w) == IF ToBoolean(w) THEN ToNumber(w) ELSE Fin(0)

\* faulty variant: the delay doubles without the ceiling of POLL_TIME_MAX_MS
RetryDelay_Uncapped(next, maxWait, totalWaitMs) ==
    MinWithRemaining(next * 2, next * 2, maxWait, totalWaitMs)

\* Math.min(nextWaitMs * 2, POLL_TIME_MAX_MS, maxWaitMs - totalWaitMs)
RetryDelay(next, maxWait, totalWaitMs) ==
    MinWithRemaining(next * 2, POLL_TIME_MAX_MS, maxWait, totalWaitMs)

\* a promise is settled once: later calls of resolve or reject change nothing
Settle(p) == IF promise.k = "pending" THEN p ELSE promise

\* the states the API reports for a build that has not finished
PendingStateNames == {"created", "queued", "received", "started"}

\* the response carries a result of the polled kind whose state is pending
IsPendingResponse(kind, resp) ==
    /\ resp.t = "ok"
    /\ resp.r \in {ApiResult(kind, s) : s \in PendingStateNames}

\* doQuery(cb): query.get(cb)
doQuery ==
    /\ inFlight' = inFlight + 1
    /\ requests' = requests + 1

PollInit ==
    /\ pollKind \in PollKinds
    /\ wait \in WaitValues
    /\ nowMs \in StartTimes
    /\ pollPc = "start"
    /\ maxWaitMs = Fin(0)
    /\ startMs = 0
    /\ nextWaitMs = 0
    /\ inFlight = 0
    /\ timers = 0
    /\ timerDue = 0
    /\ promise = Pending
    /\ requests = 0
    /\ responses = 0
    /\ timersSet = 0
    /\ timersFired = 0
    /\ lastResp = NoResponse
    /\ pendingSeen = 0
    /\ slowLeft = MaxSlow

\* the call of queryWithWait up to the first doQuery(checkBuild)
\* queryWithWait(query, valueIsPending, options) with options.wait = w: the
\* poll's own state
queryWithWaitOf(w) ==
    /\ pollPc = "start"
    /\ maxWaitMs' = MaxWaitOf(w)
    /\ IF IsNaN(maxWaitMs')
       THEN /\ promise' = Settle(Rejected(WaitTypeError))
            /\ pollPc' = "settled"
            /\ UNCHANGED <<startMs, nextWaitMs, inFlight, requests>>
       ELSE IF IsNegative(maxWaitMs')
       THEN /\ promise' = Settle(Rejected(WaitRangeError))
            /\ pollPc' = "settled"
            /\ UNCHANGED <<startMs, nextWaitMs, inFlight, requests>>
       ELSE /\ startMs' = nowMs
            /\ nextWaitMs' = POLL_TIME_START_MS \div 2
            /\ doQuery
            /\ pollPc' = "polling"
            /\ UNCHANGED promise
    /\ UNCHANGED <<pollKind, wait, nowMs, timers, timerDue, responses,
                   timersSet, timersFired, lastResp, pendingSeen, slowLeft>>

queryWithWait ==
    /\ queryWithWaitOf(wait)
    /\ UNCHANGED orchVars
    /\ UNCHANGED promptVars
    /\ UNCHANGED cmdVars

\* faulty variant: the time waited is never seen to advance
TotalWaitMs_Frozen(now, start) == 0

\* faulty variant: the total wait is taken as the clock reading, not the time since the start
TotalWaitMs_NoStart(now, start) == now

\* nowMs - startMs
TotalWaitMs(now, start) == now - start

\* faulty variant: an API error is retried like a pending result while budget remains
checkBuildVerdict_RetryErrors(resp, kind, maxWait, totalWaitMs) ==
    IF resp.t = "err"
    THEN (IF BudgetSet(maxWait) /\ LessThan(totalWaitMs, maxWait) THEN "retry" ELSE "reject")
    ELSE IF BudgetSet(maxWait) /\ valueIsPending(kind, resp.r).threw THEN "throw"
    ELSE IF /\ BudgetSet(maxWait)
            /\ valueIsPending(kind, resp.r).v
            /\ LessThan(totalWaitMs, maxWait)
    THEN "retry"
    ELSE "resolve"

\* faulty variant: the budget is examined on every response, and a response
\* that arrives after it ran out fails the poll
checkBuildVerdict_Deadline(resp, kind, maxWait, totalWaitMs) ==
    IF BudgetSet(maxWait) /\ ~LessThan(totalWaitMs, maxWait) THEN "throw"
    ELSE IF resp.t = "err" THEN "reject"
    ELSE IF BudgetSet(maxWait) /\ valueIsPending(kind, resp.r).threw THEN "throw"
    ELSE IF BudgetSet(maxWait) /\ valueIsPending(kind, resp.r).v THEN "retry"
    ELSE "resolve"

\* what checkBuild(err, result) does with a callback received totalWaitMs after
\* the start of the poll: "reject" with the error, "throw" (the classifier
\* threw), "retry" after a timer, or "resolve" with the result
checkBuildVerdict(resp, kind, maxWait, totalWaitMs) ==
    IF resp.t = "err" THEN "reject"
    ELSE IF BudgetSet(maxWait) /\ valueIsPending(kind, resp.r).threw THEN "throw"
    ELSE IF /\ BudgetSet(maxWait)
            /\ valueIsPending(kind, resp.r).v
            /\ LessThan(totalWaitMs, maxWait)
    THEN "retry"
    ELSE "resolve"

\* checkBuild(err, result), the callback of a request that took `latency` ms:
\* the poll's own state
checkBuildOf(resp, latency) ==
    /\ pollPc = "polling"
    /\ inFlight > 0
    /\ latency > 0 => slowLeft > 0
    /\ slowLeft' = IF latency > 0 THEN slowLeft - 1 ELSE slowLeft
    /\ nowMs' = nowMs + latency
    /\ inFlight' = inFlight - 1
    /\ responses' = responses + 1
    /\ lastResp' = resp
    /\ pendingSeen' = IF IsPendingResponse(pollKind, resp) THEN pendingSeen + 1
                      ELSE pendingSeen
    /\ LET totalWaitMs == TotalWaitMs(nowMs', startMs)
           verdict == checkBuildVerdict(resp, pollKind, maxWaitMs, totalWaitMs)
       IN  IF verdict = "retry"
           THEN /\ nextWaitMs' = RetryDelay(nextWaitMs, maxWaitMs, totalWaitMs)
                /\ timers' = timers + 1
                /\ timersSet' = timersSet + 1
                /\ timerDue' = nowMs' + nextWaitMs'
                /\ pollPc' = "sleeping"
                /\ UNCHANGED promise
           ELSE /\ promise' = Settle(CASE verdict = "reject" -> Rejected(resp.e)
                                       [] verdict = "throw" -> Rejected(ClassifierError)
                                       [] OTHER -> Resolved(resp.r))
                /\ pollPc' = "settled"
                /\ UNCHANGED <<nextWaitMs, timers, timerDue, timersSet>>
    /\ UNCHANGED <<pollKind, wait, maxWaitMs, startMs, requests, timersFired>>

\* checkBuild(err, result): the callback of a request that took `latency` ms
checkBuild(resp, latency) ==
    /\ checkBuildOf(resp, latency)
    /\ UNCHANGED orchVars
    /\ UNCHANGED promptVars
    /\ UNCHANGED cmdVars

\* faulty variant: the retry timer repeats (setInterval for setTimeout): it stays set
\* after it fired
timerFire_Repeating(late) ==
    /\ timers > 0
    /\ requests < MaxRequests
    /\ late > 0 => slowLeft > 0
    /\ slowLeft' = IF late > 0 THEN slowLeft - 1 ELSE slowLeft
    /\ nowMs' = timerDue + late
    /\ timersFired' = timersFired + 1
    /\ doQuery
    /\ pollPc' = "polling"
    /\ UNCHANGED <<pollKind, wait, maxWaitMs, startMs, nextWaitMs, timerDue, timers,
                   promise, responses, timersSet, lastResp, pendingSeen>>
    /\ UNCHANGED orchVars
    /\ UNCHANGED promptVars
    /\ UNCHANGED cmdVars

\* the retry timer fires, `late` ms after it was due: doQuery(checkBuild)
timerFire(late) ==
    /\ pollPc = "sleeping"
    /\ timers > 0
    /\ requests < MaxRequests
    /\ late > 0 => slowLeft > 0
    /\ slowLeft' = IF late > 0 THEN slowLeft - 1 ELSE slowLeft
    /\ nowMs' = timerDue + late
    /\ timers' = timers - 1
    /\ timersFired' = timersFired + 1
    /\ doQuery
    /\ pollPc' = "polling"
    /\ UNCHANGED <<pollKind, wait, maxWaitMs, startMs, nextWaitMs, timerDue,
                   promise, responses, timersSet, lastResp, pendingSeen>>
    /\ UNCHANGED orchVars
    /\ UNCHANGED promptVars
    /\ UNCHANGED cmdVars

PollNext ==
    \/ queryWithWait
    \/ \E resp \in Responses(pollKind), latency \in Latencies : checkBuild(resp, latency)
    \/ \E late \in Lateness : timerFire(late)

-----------------------------------------------------------------------------
(* The inputs of a status check: options, the git repository, the API *)

SlugAB == <<"a", "/", "b">>
SlugCD == <<"c", "/", "d">>
NoSlash == <<"a", "b">>
SpacedSlug == <<"c", " ", "/", "d">>

RepoValues == {JsUndefined, JsString(<<>>), JsString(SlugAB), JsString(NoSlash)}
StoreRepoValues == {JsUndefined, JsString(SlugCD), JsString(SpacedSlug)}

BranchName == <<"d", "e", "v">>
BranchValues == {JsUndefined, JsString(BranchName), JsBoolean(TRUE)}

Sha1 == <<"1", "a">>
Sha2 == <<"2", "b">>
TagName == <<"v", "1">>
CommitValues == {JsUndefined, JsString(TagName), JsString(Sha1)}

InteractiveValues == {JsUndefined, JsBoolean(TRUE)}

\* an http(s).Agent: the caller's own, or one travisStatus made
AgentObject(kind) == [t |-> "object", agent |-> kind]
CallerAgent == AgentObject("caller")
NoAgent == JsUndefined

\* the options of the request module that choose its agent behaviour
AgentKeys == {"agent", "agentClass", "agentOptions", "forever", "pool"}

\* options.requestOpts: not given, without any agent behaviour (empty, another
\* option only, agent explicitly undefined), or with one of the five options
RequestOptsValues ==
    { JsUndefined,
      [t |-> "object"],
      [t |-> "object", timeout |-> JsNumber(5)],
      [t |-> "object", agent |-> JsUndefined],
      [t |-> "object", agent |-> CallerAgent],
      [t |-> "object", agentClass |-> JsObject],
      [t |-> "object", agentOptions |-> JsObject],
      [t |-> "object", forever |-> JsBoolean(TRUE)],
      [t |-> "object", pool |-> JsObject, timeout |-> JsNumber(5)] }

\* TravisStatusChecker.ORG_URI
ORG_URI == <<"h", "t", "t", "p", "s", ":", "/", "/", "o", "/">>
HttpUrl == <<"h", "t", "t", "p", ":", "/", "/", "h", "/">>
GitUrl == <<"g", "i", "t", ":", "/", "/", "h", "/">>
NotAUrl == <<"h", "/">>

\* options.apiEndpoint
ApiEndpointValues ==
    {JsUndefined, JsString(<<>>), JsString(HttpUrl), JsString(GitUrl), JsString(NotAUrl)}

\* options.in: not given (process.stdin is used) or a value that is no stream
InValues == {JsUndefined, JsString(<<"i">>)}

\* options with the given request settings
WithSettings(b, s) ==
    [repo |-> b.repo, storeRepo |-> b.storeRepo, branch |-> b.branch,
     commit |-> b.commit, interactive |-> b.interactive,
     requestOpts |-> s.requestOpts, apiEndpoint |-> s.apiEndpoint, in |-> s.in]

\* The request settings every combination of the other options is called
\* with: the defaults, the caller's own agent, a bad `in`, a bad endpoint.
CommonSettings ==
    { [requestOpts |-> JsUndefined, apiEndpoint |-> JsUndefined, in |-> JsUndefined],
      [requestOpts |-> [t |-> "object", agent |-> CallerAgent],
       apiEndpoint |-> JsUndefined, in |-> JsUndefined],
      [requestOpts |-> JsUndefined, apiEndpoint |-> JsUndefined, in |-> JsString(<<"i">>)],
      [requestOpts |-> JsUndefined, apiEndpoint |-> JsString(NotAUrl), in |-> JsUndefined],
      [requestOpts |-> [t |-> "object", agent |-> CallerAgent],
       apiEndpoint |-> JsString(NotAUrl), in |-> JsString(<<"i">>)] }

OptionsValues ==
    { WithSettings(b, s) :
          b \in [repo : RepoValues, storeRepo : StoreRepoValues, branch : BranchValues,
                 commit : CommitValues, interactive : InteractiveValues],
          s \in CommonSettings }

\* every request setting
RequestSettings ==
    [requestOpts : RequestOptsValues, apiEndpoint : ApiEndpointValues, in : InValues]

\* the other options a call with any request setting is made with: one call
\* for each way the slug is found and each kind of query
RequestBases ==
    { [repo |-> JsUndefined, storeRepo |-> JsUndefined, branch |-> JsUndefined,
       commit |-> JsUndefined, interactive |-> JsBoolean(TRUE)],
      [repo |-> JsUndefined, storeRepo |-> JsString(SlugCD), branch |-> JsUndefined,
       commit |-> JsString(Sha1), interactive |-> JsUndefined],
      [repo |-> JsString(SlugAB), storeRepo |-> JsUndefined, branch |-> JsBoolean(TRUE),
       commit |-> JsUndefined, interactive |-> JsUndefined],
      [repo |-> JsString(NoSlash), storeRepo |-> JsUndefined, branch |-> JsUndefined,
       commit |-> JsUndefined, interactive |-> JsUndefined] }

RequestOptionsValues == { WithSettings(b, s) : b \in RequestBases, s \in RequestSettings }

NoOptions ==
    [repo |-> JsUndefined, storeRepo |-> JsUndefined, branch |-> JsUndefined,
     commit |-> JsUndefined, interactive |-> JsUndefined,
     requestOpts |-> JsUndefined, apiEndpoint |-> JsUndefined, in |-> JsUndefined]

\* The strings a slug is drawn from to exercise the format check: every
\* non-empty string of at most MaxSlugLen characters over a letter or two, the
\* slash and two kinds of whitespace.
SlugAlphabet == {"a", "b", "/", " ", "\n"}
SlugStrings == UNION { [1..n -> SlugAlphabet] : n \in 1..MaxSlugLen }

\* travisStatus({repo: s}) for each of these strings
SlugOptionsValues == { [NoOptions EXCEPT !.repo = JsString(s)] : s \in SlugStrings }

\* a git config value that is not set, HEAD when it is detached
NoValue == <<>>

ConfigValues == {NoValue, SlugAB, NoSlash}
HeadValues == {NoValue, <<"m">>}

RemoteName == <<"u", "p">>
Origin == <<"o", "r", "i", "g", "i", "n">>

\* the URLs `git ls-remote --get-url` may print for a remote that has one
RemoteUrls ==
    { <<"g", "@", "h", ":", "a", "/", "b", ".", "g", "i", "t">>,
      <<"h", "t", "t", "p", "s", ":", "/", "/", "h", "/", "c", "/", "d">>,
      <<"h", ":", ":", "a", "/", "b">>,
      <<"/", "r", "/", "a", " ", "b">>,
      <<"a", "b">> }

\* the lines a user may enter at a prompt
Answers == {<<"y">>, <<"n">>, <<>>, SlugCD \o <<" ">>, NoSlash}

\* the argument vectors of the git commands
GitConfigSet(name, value) == [cmd |-> "config", name |-> name, value |-> value]
GitConfigGet(name, of) == [cmd |-> "config --get", name |-> name, value |-> of]
GitRevParse(commitName) == [cmd |-> "rev-parse --verify", name |-> "", value |-> commitName]
GitSymbolicRef == [cmd |-> "symbolic-ref -q --short HEAD", name |-> "", value |-> <<>>]
GitLsRemote(remoteName) == [cmd |-> "ls-remote --get-url", name |-> "", value |-> remoteName]

SLUG_CONFIG_NAME == "travis.slug"

\* the error of a git command that exited with `code`
GitError(code) == [name |-> "Error", message |-> "Command failed: git", code |-> code]
BranchError == [name |-> "Error", message |-> "Unable to determine current branch"]
SlugDetectionError(message) == [name |-> "SlugDetectionError", message |-> message]
EOFError == [name |-> "EOFError", message |-> "The input stream is exhausted."]
PropertyError == [name |-> "TypeError", message |-> "Cannot read properties of undefined"]
\* `Build commit ${buildCommit.sha} does not match ${localCommit.sha}`, with
\* ` (${localCommit.name})` appended when localCommit.name is set; the fixed
\* parts of the text are single elements of the sequence
CommitMessage(build, localCommit) ==
    <<"Build commit ">> \o build.commit.sha \o <<" does not match ">> \o localCommit.sha
        \o (IF "name" \in DOMAIN localCommit /\ localCommit.name # <<>>
            THEN <<" (">> \o localCommit.name \o <<")">>
            ELSE <<>>)

\* the error of assert.strictEqual(buildCommit.sha, localCommit.sha, message)
AssertionError(build, localCommit) ==
    [name |-> "AssertionError", message |-> CommitMessage(build, localCommit),
     actual |-> build.commit.sha, expected |-> localCommit.sha]

\* getTrimmedStdout(result): git prints a value followed by a newline
getTrimmedStdout(value) == TrimRight(value \o <<"\n">>)

NoPromise == [k |-> "none"]
NoApi == [op |-> "none"]
NoResult == [none |-> TRUE]

\* the calls of the API client
GetRepo(slug) == [op |-> "getRepo", slug |-> slug, options |-> TRUE]
GetBranch(slug, branch) ==
    [op |-> "getBranch", slug |-> slug, branch |-> branch, options |-> TRUE]
GetBuild(slug, id) == [op |-> "getBuild", slug |-> slug, id |-> id]

LastBuildId == 7

\* the bodies the API may answer a call with
ApiBodies(call) ==
    CASE call.op = "getRepo" ->
             {[repo |-> [slug |-> call.slug, last_build_id |-> LastBuildId,
                         last_build_state |-> "passed"]],
              NotFoundResult}
      [] call.op = "getBranch" ->
             {[branch |-> [state |-> "passed"], commit |-> [sha |-> sha]] : sha \in {Sha1, Sha2}}
                 \cup {NotFoundResult}
      [] call.op = "getBuild" ->
             {[build |-> [id |-> call.id, state |-> "passed"], commit |-> [sha |-> sha]] :
                  sha \in {Sha1, Sha2}}
                 \cup {[build |-> [id |-> call.id, state |-> "started"],
                         commit |-> [sha |-> Sha1],
                         repo |-> [slug |-> call.slug, last_build_id |-> call.id,
                                   last_build_state |-> "started"]]}
                 \cup {NotFoundResult}
      [] OTHER -> {}

ApiError == [name |-> "Error", message |-> "ECONNRESET"]

ApiAnswers(call) ==
    IF call = NoApi THEN {}
    ELSE {[t |-> "err", e |-> ApiError]} \cup {[t |-> "ok", r |-> r] : r \in ApiBodies(call)}

-----------------------------------------------------------------------------
(* travisStatus: the pure steps of a status check *)

\* faulty variant: the record always carries the reference as its name
LocalCommit_AlwaysNamed(resolved, commit) == [sha |-> resolved, name |-> commit]

\* the localCommit record built from the resolved hash
LocalCommit(resolved, commit) ==
    IF resolved # commit THEN [sha |-> resolved, name |-> commit]
    ELSE [sha |-> resolved]

\* faulty variant: { ...build, ...repo }, the repository's value wins
Merge_RepoWins(repo, build) ==
    [key \in DOMAIN repo \cup DOMAIN build |->
        IF key \in DOMAIN repo THEN repo[key] ELSE build[key]]

\* { ...repo, ...build }
Merge(repo, build) ==
    [key \in DOMAIN repo \cup DOMAIN build |->
        IF key \in DOMAIN build THEN build[key] ELSE repo[key]]

\* faulty variant: the message leaves out the name of the commit
checkBuildCommit_NoName(build, localCommit) ==
    IF "commit" \notin DOMAIN build THEN [threw |-> TRUE, e |-> PropertyError]
    ELSE IF build.commit.sha # localCommit.sha
    THEN [threw |-> TRUE,
          e |-> AssertionError(build, [sha |-> localCommit.sha])]
    ELSE [threw |-> FALSE, v |-> build]

\* checkBuildCommit(build, localCommit): returns build, or throws
checkBuildCommit(build, localCommit) ==
    IF "commit" \notin DOMAIN build THEN [threw |-> TRUE, e |-> PropertyError]
    ELSE IF build.commit.sha # localCommit.sha
    THEN [threw |-> TRUE, e |-> AssertionError(build, localCommit)]
    ELSE [threw |-> FALSE, v |-> build]

\* what is written to the err stream
StoreErrorNotice(e) == [text |-> "Error storing slug in git config: ", about |-> e.name]
DetectedNotice(slug) == [text |-> "detected repository as ", about |-> slug]
AgreeQuestion(slug) == [text |-> "Detected repository as ... is this correct? ", about |-> slug]
AskQuestion(slug) == [text |-> "Repository slug (owner/name): ", about |-> slug]
AgreeNotValid == [text |-> "Please enter \"yes\" or \"no\".", about |-> <<>>]
AskNotValid == [text |-> "GitHub repo name is invalid", about |-> <<>>]

\* A step of the slug resolution: where it stands afterwards (pc), the value
\* it carries, the promise of the slug (p), the git commands it started
\* (calls) and what it wrote to the err stream (log).
SlugStep(stepPc, value, p, calls, log) ==
    [pc |-> stepPc, carried |-> value, p |-> p, calls |-> calls, log |-> log]

\* storeSlug(slug) as far as it runs synchronously: the format check, then
\* `git config travis.slug <slug>`; tryStoreSlug(slug) turns a failure into a
\* notice on the err stream and resolves with the slug
tryStoreSlug(slug) ==
    IF checkSlugFormat(slug).threw
    THEN SlugStep("done", slug, Resolved(slug), <<>>,
                  <<StoreErrorNotice(checkSlugFormat(slug).e)>>)
    ELSE SlugStep("store", slug, Pending, <<GitConfigSet(SLUG_CONFIG_NAME, slug)>>, <<>>)

\* faulty variant: the found slug is stored whether or not the check is interactive
foundSlug_AlwaysStore(slug, interactive) ==
    IF checkSlugFormat(slug).threw
    THEN SlugStep("done", slug, Rejected(checkSlugFormat(slug).e), <<>>, <<>>)
    ELSE tryStoreSlug(slug)

\* findSlug().then(checkSlugFormat) and, if interactive, .then(tryStoreSlug)
foundSlug(slug, interactive) ==
    IF checkSlugFormat(slug).threw
    THEN SlugStep("done", slug, Rejected(checkSlugFormat(slug).e), <<>>, <<>>)
    ELSE IF Truthy(interactive) THEN tryStoreSlug(slug)
    ELSE SlugStep("done", slug, Resolved(slug), <<>>, <<>>)

\* faulty variant: the notice is written in interactive mode too, before the question
confirmOrNotify_NotifyAlways(slug, interactive) ==
    IF Truthy(interactive)
    THEN SlugStep("agree", slug, Pending, <<>>, <<DetectedNotice(slug), AgreeQuestion(slug)>>)
    ELSE LET next == foundSlug(slug, interactive)
         IN  [next EXCEPT !.log = <<DetectedNotice(slug)>> \o @]

\* confirmOrNotify(slug): the question of confirmSlug if interactive, else the
\* notice and the slug
confirmOrNotify(slug, interactive) ==
    IF Truthy(interactive)
    THEN SlugStep("agree", slug, Pending, <<>>, <<AgreeQuestion(slug)>>)
    ELSE LET next == foundSlug(slug, interactive)
         IN  [next EXCEPT !.log = <<DetectedNotice(slug)>> \o @]

\* extractSlug(remoteUrl) and what follows it
extractedSlug(remoteUrl, interactive) ==
    LET m == extractSlug(gitUrlPath(remoteUrl))
    IN  IF m.match THEN confirmOrNotify(m.slug, interactive)
        ELSE SlugStep("done", remoteUrl,
                      Rejected(SlugDetectionError("Unable to extract slug from URL")),
                      <<>>, <<>>)

\* faulty variant: every answer is taken as valid
AgreeValid_Any(answer) == TRUE

\* /^y(?:es)?|no?$/i.test(answer): the answer begins with y, or ends in n or no
AgreeValid(answer) ==
    \/ answer # <<>> /\ answer[1] \in {"y", "Y"}
    \/ answer # <<>> /\ answer[Len(answer)] \in {"n", "N"}
    \/ /\ Len(answer) >= 2
       /\ answer[Len(answer) - 1] \in {"n", "N"}
       /\ answer[Len(answer)] \in {"o", "O"}

\* agreeToBoolean(answer)
agreeToBoolean(answer) == answer # <<>> /\ answer[1] \in {"y", "Y"}

\* the answer of ask(): applyDefault, then trimAnswer
AskAnswer(line, default) == TrimRight(IF line # <<>> THEN line ELSE default)

\* options.branch === true
IsTrue(v) == v.t = "boolean" /\ v.b

\* faulty variant: the stored slug is the one that is queried
ThenRepo_Stored(p, opts) == p

\* storedSlugP.then(() => options.repo) when both repo and storeRepo are given
ThenRepo(p, opts) ==
    IF p.k = "resolved" /\ Truthy(opts.storeRepo) /\ Truthy(opts.repo)
    THEN Resolved(opts.repo.s)
    ELSE p

\* faulty variant: the query waits for the slug only, not for resolveHash
SlugForQuery_SlugOnly(sofar, slugP, commitP) ==
    IF sofar # Pending THEN sofar
    ELSE IF slugP.k = "pending" THEN Pending
    ELSE IF slugP.k = "rejected" THEN slugP
    ELSE Resolved(slugP.v)

\* Promise.all([repoSlugP, localCommitP]).then(slugAndHash => slugAndHash[0]),
\* given its value so far: rejected with the first rejection, resolved with
\* the slug once both are resolved
SlugForQuery(sofar, slugP, commitP) ==
    IF sofar # Pending THEN sofar
    ELSE IF slugP.k = "rejected" THEN slugP
    ELSE IF commitP.k = "rejected" THEN commitP
    ELSE IF slugP.k = "resolved" /\ commitP.k \in {"resolved", "none"} THEN Resolved(slugP.v)
    ELSE Pending

\* faulty variant: the repository is queried whether or not a branch is asked for
FirstQuery_RepoAlways(opts, slugP, bP) == GetRepo(slugP.v)

\* the first remote query, once the promises it waits for are resolved:
\* getBranch(slug, branch, options) or getRepo(slug, options)
FirstQuery(opts, slugP, bP) ==
    IF Truthy(opts.branch) THEN GetBranch(slugP.v, bP.v) ELSE GetRepo(slugP.v)

\* faulty variant: the result must have a commit also when no commit is checked
CheckedResult_AlwaysCommit(sofar, rP, commitP) ==
    IF sofar # Pending THEN sofar
    ELSE IF rP.k = "rejected" THEN rP
    ELSE IF commitP.k = "rejected" THEN commitP
    ELSE IF rP.k = "resolved" /\ commitP.k \in {"resolved", "none"}
    THEN (IF "commit" \notin DOMAIN rP.v THEN Rejected(PropertyError)
          ELSE IF commitP.k = "resolved" /\ checkBuildCommit(rP.v, commitP.v).threw
          THEN Rejected(checkBuildCommit(rP.v, commitP.v).e)
          ELSE Resolved(rP.v))
    ELSE Pending

\* checkedResultP given resultP and localCommitP
CheckedResult(sofar, rP, commitP) ==
    IF sofar # Pending THEN sofar
    ELSE IF commitP = NoPromise THEN rP
    ELSE IF rP.k = "rejected" THEN rP
    ELSE IF commitP.k = "rejected" THEN commitP
    ELSE IF rP.k = "resolved" /\ commitP.k = "resolved"
    THEN (IF checkBuildCommit(rP.v, commitP.v).threw
          THEN Rejected(checkBuildCommit(rP.v, commitP.v).e)
          ELSE Resolved(rP.v))
    ELSE Pending

\* faulty variant: the agent is destroyed only when the check succeeds
cleanup_OnSuccess(made, before, after) ==
    IF made # NoAgent /\ before = Pending /\ after.k = "resolved" THEN 1 ELSE 0

\* cleanupP: the number of agent.destroy() calls made when checkedResultP goes
\* from `before` to `after`
cleanup(made, before, after) ==
    IF made # NoAgent /\ before = Pending /\ after # Pending THEN 1 ELSE 0

\* The promise reactions that run after an event: slugForQueryP, the start of
\* the first remote query, resultP and the outcome.  rP, call, calls and repo
\* are resultP, api, apiCalls and repoResult as the event itself left them.
Propagate(rP, call, calls, repo) ==
    LET sfq == SlugForQuery(slugForQueryP, repoSlugP', localCommitP')
        waiting == rP = Pending /\ call = NoApi /\ calls = <<>>
        ready == /\ sfq.k = "resolved"
                 /\ Truthy(options'.branch) => branchP'.k = "resolved"
        query == FirstQuery(options', sfq, branchP')
        rP2 == IF ~waiting THEN rP
               ELSE IF sfq.k = "rejected" THEN sfq
               ELSE IF Truthy(options'.branch) /\ branchP'.k = "rejected" THEN branchP'
               ELSE Pending
    IN  /\ slugForQueryP' = sfq
        /\ resultP' = rP2
        /\ api' = IF waiting /\ ready THEN query ELSE call
        /\ apiCalls' = IF waiting /\ ready THEN <<query>> ELSE calls
        /\ repoResult' = repo
        /\ outcome' = CheckedResult(outcome, rP2, localCommitP')
        /\ destroyed' = destroyed + cleanup(agent', outcome, outcome')
        /\ pc' = IF outcome' # Pending THEN "done" ELSE "running"

\* no remote query answered in this event
NoAnswer ==
    /\ Propagate(resultP, api, apiCalls, repoResult)
    /\ UNCHANGED answers

\* the questions a prompt waits at
IsPrompt(at) == at \in {"agree", "ask"}

\* the events of the input stream a prompt listens for, with no instance of
\* its listeners registered
NoneRegistered == [end |-> 0, error |-> 0, readable |-> 0]

\* no prompt waits and none has left a listener behind
NoListeners == [own |-> NoneRegistered, left |-> NoneRegistered]

\* input.removeListener(event, fn): at most one instance of fn is removed
removeListener(n) == IF n > 0 THEN n - 1 ELSE 0

\* faulty variant: the 'error' listener is not removed
done_KeepsError(own) ==
    [end |-> removeListener(own.end),
     error |-> own.error,
     readable |-> removeListener(own.readable)]

\* done(err, value): one removeListener call for each of 'end', 'error' and
\* 'readable'; what is still registered afterwards
done(own) ==
    [end |-> removeListener(own.end),
     error |-> removeListener(own.error),
     readable |-> removeListener(own.readable)]

\* prompt(text): input.on('end', done), input.on('error', done), then
\* readPending(), which registers itself for 'readable' when read() returns
\* null; with text in the buffer its first read is still to be made
prompt(buf) == [end |-> 1, error |-> 1, readable |-> IF buf = <<>> THEN 1 ELSE 0]

\* readPending() ran and the line is not complete: when prompt() called it,
\* it has registered itself once; on a 'readable' event every registered
\* instance was called and each has registered the function once more
readableAfterRead(n) == IF n = 0 THEN 1 ELSE n + n

\* the listeners after a step of the slug resolution: a prompt that was
\* waiting has settled through done(), and a prompt that begins registers its
\* own, the stream holding buf
listenersAfter(ls, settles, begins, buf) ==
    LET rest == IF settles THEN done(ls.own) ELSE NoneRegistered
    IN  [own |-> IF begins THEN prompt(buf)
                 ELSE IF settles THEN NoneRegistered ELSE ls.own,
         left |-> [e \in {"end", "error", "readable"} |-> ls.left[e] + rest[e]]]

\* the slug resolution takes a step
SlugStepOf(step) ==
    /\ slugPc' = step.pc
    /\ carried' = step.carried
    /\ repoSlugP' = ThenRepo(step.p, options)
    /\ errLog' = errLog \o step.log
    /\ gitCalls' = gitCalls \o step.calls

\* a step of the slug resolution in which the stream is not read
TakeSlugStep(step) ==
    /\ SlugStepOf(step)
    /\ listeners' = listenersAfter(listeners, IsPrompt(slugPc), IsPrompt(step.pc), buffered)

\* no TravisStatusChecker has been constructed
NoClient == [t |-> "none"]

\* before travisStatus is called
NotCalled ==
    /\ options = NoOptions
    /\ pc = "start"
    /\ outcome = Pending
    /\ repoSlugP = Pending
    /\ localCommitP = NoPromise
    /\ branchP = NoPromise
    /\ slugForQueryP = Pending
    /\ resultP = Pending
    /\ slugPc = "idle"
    /\ carried = NoValue
    /\ hashPc = "idle"
    /\ branchPc = "idle"
    /\ api = NoApi
    /\ apiCalls = <<>>
    /\ repoResult = NoResult
    /\ answers = <<>>
    /\ agent = NoAgent
    /\ destroyed = 0
    /\ clientOpts = NoClient
    /\ gitCalls = <<>>
    /\ configWrites = <<>>
    /\ errLog = <<>>
    /\ linesLeft = MaxLines

\* no poll is modelled in detail during a status check
PollIdle ==
    /\ pollKind = "repo"
    /\ wait = JsUndefined
    /\ nowMs = 0
    /\ pollPc = "start"
    /\ maxWaitMs = Fin(0)
    /\ startMs = 0
    /\ nextWaitMs = 0
    /\ inFlight = 0
    /\ timers = 0
    /\ timerDue = 0
    /\ promise = Pending
    /\ requests = 0
    /\ responses = 0
    /\ timersSet = 0
    /\ timersFired = 0
    /\ lastResp = NoResponse
    /\ pendingSeen = 0
    /\ slowLeft = MaxSlow

\* nothing has arrived on the input stream
PromptIdle ==
    /\ buffered = <<>>
    /\ ended = FALSE
    /\ response = <<>>
    /\ chunksLeft = MaxChunks
    /\ listeners = NoListeners

\* the command has not been run
NoCommand == [none |-> TRUE]
NotCalledBack == [called |-> FALSE]

CmdIdle ==
    /\ command = NoCommand
    /\ exit = NotCalledBack
    /\ outLog = <<>>

Init ==
    /\ NotCalled
    /\ head \in HeadValues
    /\ configSlug \in ConfigValues
    /\ PollIdle
    /\ PromptIdle
    /\ CmdIdle

\* faulty variant: only options.repo is checked at the start
checkOptions_RepoOnly(opts) ==
    IF Truthy(opts.repo) /\ checkSlugFormat(opts.repo.s).threw
    THEN checkSlugFormat(opts.repo.s)
    ELSE [threw |-> FALSE, v |-> opts]

\* the format checks of options.repo and options.storeRepo at the start
checkOptions(opts) ==
    IF Truthy(opts.repo) /\ checkSlugFormat(opts.repo.s).threw
    THEN checkSlugFormat(opts.repo.s)
    ELSE IF Truthy(opts.storeRepo) /\ checkSlugFormat(opts.storeRepo.s).threw
    THEN checkSlugFormat(opts.storeRepo.s)
    ELSE [threw |-> FALSE, v |-> opts]

\* requestOpts[key] !== undefined
Defines(requestOpts, key) ==
    key \in DOMAIN requestOpts /\ requestOpts[key] # JsUndefined

\* the caller requested an agent behaviour
RequestsAgentBehavior(requestOpts) ==
    /\ requestOpts # JsUndefined
    /\ \E key \in AgentKeys : Defines(requestOpts, key)

InvalidUrlError == [name |-> "TypeError", message |-> "Invalid URL"]
StreamError == [name |-> "TypeError", message |-> "options.in must be a stream.Readable"]

\* new URL(url).protocol for a URL with a host: it throws unless the text
\* begins with a scheme and a colon
URLProtocol(url) ==
    LET c == FirstIndex(url, 1, {":"})
    IN  IF c > 1 /\ url[1] \in Letters /\ \A j \in 1..(c - 1) : IsSchemeChar(url[j])
        THEN [threw |-> FALSE, v |-> SubSeq(url, 1, c)]
        ELSE [threw |-> TRUE, e |-> InvalidUrlError]

\* the Agent class for the endpoint's protocol, if there is one
AgentClassFor(protocol) ==
    IF protocol = <<"h", "t", "t", "p", "s", ":">> THEN AgentObject("https")
    ELSE IF protocol = <<"h", "t", "t", "p", ":">> THEN AgentObject("http")
    ELSE NoAgent

\* { ...requestOpts, agent: made }
WithAgent(requestOpts, made) ==
    LET given == IF requestOpts = JsUndefined THEN {} ELSE DOMAIN requestOpts
    IN  [key \in given \cup {"t", "agent"} |->
            IF key = "agent" THEN made
            ELSE IF key = "t" THEN "object"
            ELSE requestOpts[key]]

\* faulty variant: an agent is made whatever the caller asked for
ownAgent_Always(opts) ==
    LET url == IF Truthy(opts.apiEndpoint) THEN opts.apiEndpoint.s ELSE ORG_URI
        made == AgentClassFor(URLProtocol(url).v)
    IN  IF URLProtocol(url).threw THEN URLProtocol(url)
        ELSE IF made = NoAgent
        THEN [threw |-> FALSE, agent |-> NoAgent, requestOpts |-> opts.requestOpts]
        ELSE [threw |-> FALSE, agent |-> made,
              requestOpts |-> WithAgent(opts.requestOpts, made)]

\* The agent travisStatus makes when the caller requested no agent behaviour,
\* and the requestOpts the checkers are constructed with.  Agent.destroy is a
\* function in every supported Node.js.
ownAgent(opts) ==
    IF RequestsAgentBehavior(opts.requestOpts)
    THEN [threw |-> FALSE, agent |-> NoAgent, requestOpts |-> opts.requestOpts]
    ELSE LET url == IF Truthy(opts.apiEndpoint) THEN opts.apiEndpoint.s ELSE ORG_URI
             made == AgentClassFor(URLProtocol(url).v)
         IN  IF URLProtocol(url).threw THEN URLProtocol(url)
             ELSE IF made = NoAgent
             THEN [threw |-> FALSE, agent |-> NoAgent, requestOpts |-> opts.requestOpts]
             ELSE [threw |-> FALSE, agent |-> made,
                   requestOpts |-> WithAgent(opts.requestOpts, made)]

\* new GitStatusChecker(options): it throws when options.in is given and is
\* not a stream
GitStatusChecker(opts) ==
    IF opts.in # JsUndefined THEN [threw |-> TRUE, e |-> StreamError]
    ELSE [threw |-> FALSE]

\* what the synchronous part of travisStatus throws, if anything
thrownAtStart(opts) ==
    IF checkOptions(opts).threw THEN checkOptions(opts)
    ELSE IF ownAgent(opts).threw THEN ownAgent(opts)
    ELSE GitStatusChecker(opts)

\* the agent that exists when the synchronous part of travisStatus ends
agentAtStart(opts) ==
    IF checkOptions(opts).threw \/ ownAgent(opts).threw THEN NoAgent
    ELSE ownAgent(opts).agent

\* where the slug comes from: storeRepo, repo, or findSlug()
slugSource(opts) ==
    IF Truthy(opts.storeRepo) THEN tryStoreSlug(opts.storeRepo.s)
    ELSE IF Truthy(opts.repo)
    THEN SlugStep("done", opts.repo.s, Resolved(opts.repo.s), <<>>, <<>>)
    ELSE SlugStep("load", NoValue, Pending, <<GitConfigGet(SLUG_CONFIG_NAME, <<>>)>>, <<>>)

\* The objects travisStatus works on, as cells of a heap: an object is a
\* record, a property that holds an object holds a reference to its cell.
NoRef == "none"
Ref(cell) == [t |-> "ref", cell |-> cell]
Unallocated == [t |-> "unallocated"]
EmptyObject == [t |-> "object"]

RefOf(v) == IF "cell" \in DOMAIN v THEN v.cell ELSE NoRef

\* the heap when travisStatus(opts) is called: the caller's options object
\* and, if it has one, the caller's requestOpts object
CallerHeap(opts) ==
    [callerOptions |->
         [opts EXCEPT !.requestOpts = IF opts.requestOpts = JsUndefined THEN JsUndefined
                                      ELSE Ref("callerRequestOpts")],
     callerRequestOpts |-> IF opts.requestOpts = JsUndefined THEN Unallocated
                           ELSE opts.requestOpts,
     ownOptions |-> Unallocated,
     ownRequestOpts |-> Unallocated]

\* obj[key] = value
SetField(obj, key, value) ==
    [k \in DOMAIN obj \cup {key} |-> IF k = key THEN value ELSE obj[k]]

\* faulty variant: `obj || {}`, the object itself when there is one
Spread_InPlace(h, ref, fresh) ==
    IF ref = NoRef THEN [h |-> [h EXCEPT ![fresh] = EmptyObject], ref |-> fresh]
    ELSE [h |-> h, ref |-> ref]

\* { ...obj }: a new object with the properties of obj, none for undefined
Spread(h, ref, fresh) ==
    [h |-> [h EXCEPT ![fresh] = IF ref = NoRef THEN EmptyObject ELSE h[ref]],
     ref |-> fresh]

\* the heap after the synchronous part of travisStatus(opts), and the objects
\* its local variables options and requestOpts refer to
travisStatusHeap(opts) ==
    LET h0 == CallerHeap(opts)
        given == RefOf(h0.callerOptions.requestOpts)
        made == agentAtStart(opts)
    IN  IF made = NoAgent
        THEN [h |-> h0, options |-> "callerOptions", requestOpts |-> given]
        ELSE LET s1 == Spread(h0, given, "ownRequestOpts")
                 h1 == [s1.h EXCEPT ![s1.ref] = SetField(@, "agent", made)]
                 s2 == Spread(h1, "callerOptions", "ownOptions")
                 h2 == [s2.h EXCEPT ![s2.ref] = SetField(@, "requestOpts", Ref(s1.ref))]
             IN  [h |-> h2, options |-> s2.ref, requestOpts |-> s1.ref]

\* travisStatus(options): the synchronous part of the call and the promise
\* reactions that need no I/O
travisStatus(opts) ==
    /\ pc = "start"
    /\ options' = opts
    /\ agent' = agentAtStart(opts)
    /\ IF thrownAtStart(opts).threw
       THEN /\ outcome' = Rejected(thrownAtStart(opts).e)
            /\ pc' = "done"
            /\ UNCHANGED <<repoSlugP, localCommitP, branchP, slugForQueryP, resultP,
                           slugPc, carried, hashPc, branchPc, api, apiCalls,
                           repoResult, answers, destroyed, clientOpts, gitCalls, errLog>>
       ELSE /\ clientOpts' = ownAgent(opts).requestOpts
            /\ slugPc' = slugSource(opts).pc
            /\ carried' = slugSource(opts).carried
            /\ repoSlugP' = ThenRepo(slugSource(opts).p, opts)
            /\ errLog' = errLog \o slugSource(opts).log
            /\ hashPc' = IF Truthy(opts.commit) THEN "running" ELSE "idle"
            /\ localCommitP' = IF Truthy(opts.commit) THEN Pending ELSE NoPromise
            /\ branchPc' = IF IsTrue(opts.branch) THEN "running" ELSE "idle"
            /\ branchP' = IF IsTrue(opts.branch) THEN Pending
                          ELSE IF Truthy(opts.branch) THEN Resolved(opts.branch.s)
                          ELSE NoPromise
            /\ gitCalls' = slugSource(opts).calls
                               \o (IF Truthy(opts.commit) THEN <<GitRevParse(opts.commit.s)>>
                                   ELSE <<>>)
                               \o (IF IsTrue(opts.branch) THEN <<GitSymbolicRef>> ELSE <<>>)
            /\ NoAnswer
    /\ UNCHANGED <<head, configSlug, configWrites, linesLeft>>
    /\ UNCHANGED pollVars
    /\ UNCHANGED promptVars
    /\ UNCHANGED cmdVars

\* faulty variant: the slug is detected whether or not one is stored
loadedSlug_AlwaysDetect(failed, stored, interactive) ==
    IF failed THEN SlugStep("done", NoValue, Rejected(GitError(128)), <<>>, <<>>)
    ELSE SlugStep("detectBranch", NoValue, Pending, <<GitSymbolicRef>>, <<>>)

\* loadSlug() settled, and findSlug's reaction: the stored slug if there is
\* one, else the start of detectSlug()
loadedSlug(failed, stored, interactive) ==
    IF failed THEN SlugStep("done", NoValue, Rejected(GitError(128)), <<>>, <<>>)
    ELSE IF stored # NoValue /\ getTrimmedStdout(stored) # <<>>
    THEN foundSlug(getTrimmedStdout(stored), interactive)
    ELSE SlugStep("detectBranch", NoValue, Pending, <<GitSymbolicRef>>, <<>>)

\* `git config --get travis.slug` ended: with the value, with exit code 1
\* when it is not set, or with another failure
\* the exit codes of `git config --get travis.slug`: 0 with the value printed,
\* 1 when the value is not set, another code when git fails otherwise
GitExitCodes == {0, 1, 2, 128}

\* the exit codes git may end with, given what the config holds
ExitCodesFor(stored) ==
    {code \in GitExitCodes : (code = 0 <=> stored # NoValue) \/ code \notin {0, 1}}

\* faulty variant: every failure of git is taken for a value that is not set
loadSlugSettled_AnyCodeIsNull(code, stored) ==
    IF code = 0 THEN Resolved(JsString(getTrimmedStdout(stored)))
    ELSE Resolved(JsNull)

\* loadSlug(): what its promise settles with when git exits with `code`
loadSlugSettled(code, stored) ==
    IF code = 0 THEN Resolved(JsString(getTrimmedStdout(stored)))
    ELSE IF code = 1 THEN Resolved(JsNull)
    ELSE Rejected(GitError(code))

loadSlug(code) ==
    /\ slugPc = "load"
    /\ code \in ExitCodesFor(configSlug)
    /\ LET loaded == loadSlugSettled(code, configSlug)
       IN  TakeSlugStep(IF loaded.k = "rejected"
                        THEN SlugStep("done", NoValue, loaded, <<>>, <<>>)
                        ELSE loadedSlug(FALSE,
                                        IF loaded.v = JsNull THEN NoValue ELSE configSlug,
                                        options.interactive))
    /\ UNCHANGED <<options, agent, clientOpts, hashPc, localCommitP, branchPc, branchP, head, configSlug,
                   configWrites, linesLeft>>
    /\ NoAnswer
    /\ UNCHANGED pollVars
    /\ UNCHANGED streamVars
    /\ UNCHANGED cmdVars

\* faulty variant: without getDefaultRemote, a detached HEAD ends the detection
detectedBranch_NoFallback(branch) ==
    IF branch # NoValue
    THEN SlugStep("branchRemote", getTrimmedStdout(branch), Pending,
                  <<GitConfigGet("branch.<branch>.remote", getTrimmedStdout(branch))>>, <<>>)
    ELSE SlugStep("done", NoValue, Rejected(BranchError), <<>>, <<>>)

\* getBranchRemote(branch), or getDefaultRemote(err) when HEAD is detached
detectedBranch(branch) ==
    IF branch # NoValue
    THEN SlugStep("branchRemote", getTrimmedStdout(branch), Pending,
                  <<GitConfigGet("branch.<branch>.remote", getTrimmedStdout(branch))>>, <<>>)
    ELSE SlugStep("lsRemote", Origin, Pending, <<GitLsRemote(Origin)>>, <<>>)

\* detectSlug: `git symbolic-ref` ended
detectSlugBranch ==
    /\ slugPc = "detectBranch"
    /\ TakeSlugStep(detectedBranch(head))
    /\ UNCHANGED <<options, agent, clientOpts, hashPc, localCommitP, branchPc, branchP, head, configSlug,
                   configWrites, linesLeft>>
    /\ NoAnswer
    /\ UNCHANGED pollVars
    /\ UNCHANGED streamVars
    /\ UNCHANGED cmdVars

\* getRemoteUrl(remoteName), for the branch's remote or for origin
branchRemote(found) ==
    LET remoteName == IF found THEN getTrimmedStdout(RemoteName) ELSE Origin
    IN  SlugStep("lsRemote", remoteName, Pending, <<GitLsRemote(remoteName)>>, <<>>)

\* detectSlug: `git config --get branch.<branch>.remote` ended
detectSlugRemote(found) ==
    /\ slugPc = "branchRemote"
    /\ TakeSlugStep(branchRemote(found))
    /\ UNCHANGED <<options, agent, clientOpts, hashPc, localCommitP, branchPc, branchP, head, configSlug,
                   configWrites, linesLeft>>
    /\ NoAnswer
    /\ UNCHANGED pollVars
    /\ UNCHANGED streamVars
    /\ UNCHANGED cmdVars

\* checkUrl(remoteUrl), then extractSlug and confirmOrNotify
checkUrl(failed, remoteUrl, remoteName, interactive) ==
    IF failed THEN SlugStep("done", remoteName, Rejected(GitError(128)), <<>>, <<>>)
    ELSE IF getTrimmedStdout(remoteUrl) = remoteName
    THEN SlugStep("done", remoteName, Rejected(SlugDetectionError("No URL for remote")),
                  <<>>, <<>>)
    ELSE extractedSlug(getTrimmedStdout(remoteUrl), interactive)

\* detectSlug: `git ls-remote --get-url <remote>` ended
detectSlugUrl(failed, remoteUrl) ==
    /\ slugPc = "lsRemote"
    /\ TakeSlugStep(checkUrl(failed, remoteUrl, carried, options.interactive))
    /\ UNCHANGED <<options, agent, clientOpts, hashPc, localCommitP, branchPc, branchP, head, configSlug,
                   configWrites, linesLeft>>
    /\ NoAnswer
    /\ UNCHANGED pollVars
    /\ UNCHANGED streamVars
    /\ UNCHANGED cmdVars

\* promptIfIncorrect(correct) after agree(question), for a line the user entered
agreed(line, slug, interactive) ==
    IF ~AgreeValid(line)
    THEN SlugStep("agree", slug, Pending, <<>>, <<AgreeNotValid, AgreeQuestion(slug)>>)
    ELSE IF agreeToBoolean(line) THEN foundSlug(slug, interactive)
    ELSE SlugStep("ask", slug, Pending, <<>>, <<AskQuestion(slug)>>)

\* confirmSlug: the user answers the question whether the slug is correct
agree(line) ==
    /\ slugPc = "agree"
    /\ linesLeft > 0
    /\ linesLeft' = linesLeft - 1
    /\ TakeSlugStep(agreed(line, carried, options.interactive))
    /\ UNCHANGED <<options, agent, clientOpts, hashPc, localCommitP, branchPc, branchP, head, configSlug,
                   configWrites>>
    /\ NoAnswer
    /\ UNCHANGED pollVars
    /\ UNCHANGED streamVars
    /\ UNCHANGED cmdVars

\* faulty variant: whatever is entered is taken for the slug
asked_AcceptAny(line, slug, interactive) == foundSlug(AskAnswer(line, slug), interactive)

\* validateAnswer(answer) of ask(question, {default: slug, trim: true,
\* validate: SLUG_VALID_RE})
asked(line, slug, interactive) ==
    IF ~SLUG_VALID_RE(AskAnswer(line, slug))
    THEN SlugStep("ask", slug, Pending, <<>>, <<AskNotValid, AskQuestion(slug)>>)
    ELSE foundSlug(AskAnswer(line, slug), interactive)

\* confirmSlug: the user answers the question for the slug
ask(line) ==
    /\ slugPc = "ask"
    /\ linesLeft > 0
    /\ linesLeft' = linesLeft - 1
    /\ TakeSlugStep(asked(line, carried, options.interactive))
    /\ UNCHANGED <<options, agent, clientOpts, hashPc, localCommitP, branchPc, branchP, head, configSlug,
                   configWrites>>
    /\ NoAnswer
    /\ UNCHANGED pollVars
    /\ UNCHANGED streamVars
    /\ UNCHANGED cmdVars

\* the input ends while a prompt waits for a line
inputEnd ==
    /\ slugPc \in {"agree", "ask"}
    /\ TakeSlugStep(SlugStep("done", carried, Rejected(EOFError), <<>>, <<>>))
    /\ UNCHANGED <<options, agent, clientOpts, hashPc, localCommitP, branchPc, branchP, head, configSlug,
                   configWrites, linesLeft>>
    /\ NoAnswer
    /\ UNCHANGED pollVars
    /\ UNCHANGED streamVars
    /\ UNCHANGED cmdVars

\* faulty variant: tryStoreSlug without its catch, a failed write fails the check
storeSlug_Failing(stored) ==
    /\ slugPc = "store"
    /\ configSlug' = IF stored THEN carried ELSE configSlug
    /\ configWrites' = IF stored THEN Append(configWrites, carried) ELSE configWrites
    /\ TakeSlugStep(SlugStep("done", carried,
                             IF stored THEN Resolved(carried) ELSE Rejected(GitError(128)),
                             <<>>, <<>>))
    /\ UNCHANGED <<options, agent, clientOpts, hashPc, localCommitP, branchPc, branchP, head, linesLeft>>
    /\ NoAnswer
    /\ UNCHANGED pollVars
    /\ UNCHANGED streamVars
    /\ UNCHANGED cmdVars

\* storeSlug: `git config travis.slug <slug>` ended; tryStoreSlug resolves
\* with the slug whether it was stored or not
storeSlug(stored) ==
    /\ slugPc = "store"
    /\ configSlug' = IF stored THEN carried ELSE configSlug
    /\ configWrites' = IF stored THEN Append(configWrites, carried) ELSE configWrites
    /\ TakeSlugStep(SlugStep("done", carried, Resolved(carried), <<>>,
                             IF stored THEN <<>> ELSE <<StoreErrorNotice(GitError(128))>>))
    /\ UNCHANGED <<options, agent, clientOpts, hashPc, localCommitP, branchPc, branchP, head, linesLeft>>
    /\ NoAnswer
    /\ UNCHANGED pollVars
    /\ UNCHANGED streamVars
    /\ UNCHANGED cmdVars

\* the hash `git rev-parse --verify <commitName>` prints
RevParse(commitName) == IF commitName = TagName THEN Sha1 ELSE commitName

\* resolveHash(options.commit) settled, and the reaction that builds localCommit
resolveHash(failed) ==
    /\ hashPc = "running"
    /\ hashPc' = "done"
    /\ localCommitP' =
           IF failed THEN Rejected(GitError(128))
           ELSE Resolved(LocalCommit(getTrimmedStdout(RevParse(options.commit.s)),
                                     options.commit.s))
    /\ UNCHANGED <<options, agent, clientOpts, slugPc, carried, repoSlugP, errLog, gitCalls, branchPc, branchP,
                   head, configSlug, configWrites, linesLeft>>
    /\ NoAnswer
    /\ UNCHANGED pollVars
    /\ UNCHANGED promptVars
    /\ UNCHANGED cmdVars

\* detectBranch() for options.branch === true settled
detectBranch ==
    /\ branchPc = "running"
    /\ branchPc' = "done"
    /\ branchP' = IF head # NoValue THEN Resolved(getTrimmedStdout(head))
                  ELSE Rejected(BranchError)
    /\ UNCHANGED <<options, agent, clientOpts, slugPc, carried, repoSlugP, errLog, gitCalls, hashPc,
                   localCommitP, head, configSlug, configWrites, linesLeft>>
    /\ NoAnswer
    /\ UNCHANGED pollVars
    /\ UNCHANGED promptVars
    /\ UNCHANGED cmdVars

\* the build query that follows the repository query when a commit is checked:
\* getBuild(repo.repo.slug, repo.repo.last_build_id)
BuildQuery(repo) == GetBuild(repo.repo.slug, repo.repo.last_build_id)

\* the reactions to the settled promise of a remote query: the status
\* check's own state
apiAnswered(answer) ==
    /\ api # NoApi
    /\ UNCHANGED <<options, agent, clientOpts, slugPc, carried, repoSlugP, errLog, gitCalls, hashPc,
                   localCommitP, branchPc, branchP, head, configSlug, configWrites,
                   linesLeft>>
    /\ answers' = IF answer.t = "ok" THEN Append(answers, answer.r) ELSE answers
    /\ IF answer.t = "err"
       THEN Propagate(Rejected(answer.e), NoApi, apiCalls, repoResult)
       ELSE IF api.op = "getRepo" /\ localCommitP # NoPromise
       THEN (IF "repo" \notin DOMAIN answer.r
             THEN Propagate(Rejected(PropertyError), NoApi, apiCalls, repoResult)
             ELSE Propagate(Pending, BuildQuery(answer.r),
                            Append(apiCalls, BuildQuery(answer.r)), answer.r))
       ELSE IF api.op = "getBuild"
       THEN Propagate(Resolved(Merge(repoResult, answer.r)), NoApi, apiCalls, repoResult)
       ELSE Propagate(Resolved(answer.r), NoApi, apiCalls, repoResult)

\* a remote query is answered; after getRepo, with a commit to check, getBuild
\* follows and its result is merged over the repository's
apiAnswer(answer) ==
    /\ apiAnswered(answer)
    /\ UNCHANGED pollVars
    /\ UNCHANGED promptVars
    /\ UNCHANGED cmdVars

Next ==
    \/ \E opts \in OptionsValues : travisStatus(opts)
    \/ \E stored \in BOOLEAN : storeSlug(stored)
    \/ \E code \in GitExitCodes : loadSlug(code)
    \/ detectSlugBranch
    \/ \E found \in BOOLEAN : detectSlugRemote(found)
    \/ \E failed \in BOOLEAN, remoteUrl \in RemoteUrls \cup {carried} :
           detectSlugUrl(failed, remoteUrl)
    \/ \E line \in Answers : agree(line)
    \/ \E line \in Answers : ask(line)
    \/ inputEnd
    \/ \E failed \in BOOLEAN : resolveHash(failed)
    \/ detectBranch
    \/ \E answer \in ApiAnswers(api) : apiAnswer(answer)

Spec == Init /\ [][Next]_vars

\* a status check called with any of the request settings
NextRequests ==
    \/ \E opts \in RequestOptionsValues : travisStatus(opts)
    \/ \E stored \in BOOLEAN : storeSlug(stored)
    \/ \E code \in GitExitCodes : loadSlug(code)
    \/ detectSlugBranch
    \/ \E found \in BOOLEAN : detectSlugRemote(found)
    \/ \E failed \in BOOLEAN, remoteUrl \in RemoteUrls \cup {carried} :
           detectSlugUrl(failed, remoteUrl)
    \/ \E line \in Answers : agree(line)
    \/ \E line \in Answers : ask(line)
    \/ inputEnd
    \/ \E failed \in BOOLEAN : resolveHash(failed)
    \/ detectBranch
    \/ \E answer \in ApiAnswers(api) : apiAnswer(answer)

SpecRequests == Init /\ [][NextRequests]_vars

\* status checks of a given repository, whatever its name: no git command runs
SlugStart ==
    /\ NotCalled
    /\ PollIdle
    /\ PromptIdle
    /\ CmdIdle
    /\ head = NoValue
    /\ configSlug = NoValue

NextSlug ==
    \/ \E opts \in SlugOptionsValues : travisStatus(opts)
    \/ \E answer \in ApiAnswers(api) : apiAnswer(answer)

SpecSlug == SlugStart /\ [][NextSlug]_vars

\* The chunks of text the user may send: part of a line, the end of a line, a
\* line and the beginning of the next, whole lines.
Chunks ==
    { <<"y">>, <<"\n">>, <<"n", "\n", "c", "/">>, <<"d", "\n">>, <<"a", "b", "\n", "\n">> }

\* the URLs of the remote in these checks: one with a slug, one whose owner/name
\* has a space in it
PromptRemoteUrls ==
    { <<"g", "@", "h", ":", "a", "/", "b", ".", "g", "i", "t">>,
      <<"/", "r", "/", "a", " ", "b">> }

\* the error an input stream emits when reading from it fails
StreamReadError == [name |-> "Error", message |-> "read failed"]

\* status checks that ask the user to confirm the detected slug
PromptOptionsValues == {[NoOptions EXCEPT !.interactive = JsBoolean(TRUE)]}

\* faulty variant: the text after the newline is not put back on the stream
readLine_DropRest(resp, data) ==
    LET lfInd == FirstIndex(data, 1, {"\n"})
    IN  IF lfInd = 0
        THEN [done |-> FALSE, response |-> resp \o data, unread |-> <<>>]
        ELSE [done |-> TRUE, response |-> resp \o SubSeq(data, 1, lfInd - 1),
              unread |-> <<>>]

\* readPending() for the data one input.read() returned: the response so far,
\* whether a newline completed it, and the text put back with input.unshift
readLine(resp, data) ==
    LET lfInd == FirstIndex(data, 1, {"\n"})
    IN  IF lfInd = 0
        THEN [done |-> FALSE, response |-> resp \o data, unread |-> <<>>]
        ELSE [done |-> TRUE, response |-> resp \o SubSeq(data, 1, lfInd - 1),
              unread |-> From(data, lfInd + 1)]

\* the reaction of the waiting question to the line prompt() resolved with
answered(at, line, slug, interactive) ==
    IF at = "agree" THEN agreed(line, slug, interactive)
    ELSE asked(line, slug, interactive)

\* faulty variant: at the end of the input the text read so far is the answer
inputEnded_PartialAnswer(resp, at, slug, interactive) ==
    IF resp # <<>> THEN answered(at, resp, slug, interactive)
    ELSE SlugStep("done", slug, Rejected(EOFError), <<>>, <<>>)

\* done() called by the stream's 'end' event, after onInputEnd has set
\* inputError: the prompt rejects with it, and confirmSlug with the prompt
inputEnded(resp, at, slug, interactive) ==
    SlugStep("done", slug, Rejected(EOFError), <<>>, <<>>)

\* a prompt waits for a line
Prompting == slugPc \in {"agree", "ask"}

\* the user sends a chunk of text
push(chunk) ==
    /\ pc = "running"
    /\ ~ended
    /\ chunksLeft > 0
    /\ chunksLeft' = chunksLeft - 1
    /\ buffered' = buffered \o chunk
    /\ UNCHANGED <<ended, response, listeners>>
    /\ UNCHANGED orchVars
    /\ UNCHANGED pollVars
    /\ UNCHANGED cmdVars

\* the user closes the input
sourceEnd ==
    /\ pc = "running"
    /\ ~ended
    /\ ended' = TRUE
    /\ UNCHANGED <<buffered, response, chunksLeft, listeners>>
    /\ UNCHANGED orchVars
    /\ UNCHANGED pollVars
    /\ UNCHANGED cmdVars

\* readPending(): the waiting prompt reads what the stream has buffered; with
\* a newline in it the prompt resolves and the question reacts to the line
readPending ==
    /\ Prompting
    /\ buffered # <<>>
    /\ buffered' = readLine(response, buffered).unread
    /\ IF readLine(response, buffered).done
       THEN /\ response' = <<>>
            /\ SlugStepOf(answered(slugPc, readLine(response, buffered).response,
                                   carried, options.interactive))
            /\ listeners' = listenersAfter(listeners, TRUE, IsPrompt(slugPc'), buffered')
       ELSE /\ response' = readLine(response, buffered).response
            /\ listeners' = [listeners EXCEPT !.own.readable = readableAfterRead(@)]
            /\ UNCHANGED <<slugPc, carried, repoSlugP, errLog, gitCalls>>
    /\ UNCHANGED <<options, agent, clientOpts, hashPc, localCommitP, branchPc, branchP,
                   head, configSlug, configWrites, linesLeft>>
    /\ NoAnswer
    /\ UNCHANGED <<ended, chunksLeft>>
    /\ UNCHANGED pollVars
    /\ UNCHANGED cmdVars

\* the 'end' event of the stream while a prompt waits: everything was read
\* and no more is to come
onInputEnd ==
    /\ Prompting
    /\ ended
    /\ buffered = <<>>
    /\ TakeSlugStep(inputEnded(response, slugPc, carried, options.interactive))
    /\ UNCHANGED <<options, agent, clientOpts, hashPc, localCommitP, branchPc, branchP,
                   head, configSlug, configWrites, linesLeft>>
    /\ NoAnswer
    /\ UNCHANGED <<buffered, ended, response, chunksLeft>>
    /\ UNCHANGED pollVars
    /\ UNCHANGED cmdVars

\* the 'error' event of the stream while a prompt waits
onInputError ==
    /\ Prompting
    /\ ~ended
    /\ TakeSlugStep(SlugStep("done", carried, Rejected(StreamReadError), <<>>, <<>>))
    /\ UNCHANGED <<options, agent, clientOpts, hashPc, localCommitP, branchPc, branchP,
                   head, configSlug, configWrites, linesLeft>>
    /\ NoAnswer
    /\ UNCHANGED <<buffered, ended, response, chunksLeft>>
    /\ UNCHANGED pollVars
    /\ UNCHANGED cmdVars

\* an interactive status check with the input stream of its prompts in detail
NextPrompt ==
    \/ \E opts \in PromptOptionsValues : travisStatus(opts)
    \/ \E stored \in BOOLEAN : storeSlug(stored)
    \/ \E code \in GitExitCodes : loadSlug(code)
    \/ detectSlugBranch
    \/ \E found \in BOOLEAN : detectSlugRemote(found)
    \/ \E failed \in BOOLEAN, remoteUrl \in PromptRemoteUrls \cup {carried} :
           detectSlugUrl(failed, remoteUrl)
    \/ \E chunk \in Chunks : push(chunk)
    \/ sourceEnd
    \/ readPending
    \/ onInputEnd
    \/ onInputError
    \/ \E answer \in ApiAnswers(api) : apiAnswer(answer)

\* HEAD is on a branch and no slug is stored, so that the slug is detected
PromptStart ==
    /\ NotCalled
    /\ PollIdle
    /\ PromptIdle
    /\ CmdIdle
    /\ head = <<"m">>
    /\ configSlug = NoValue

SpecPrompt == PromptStart /\ [][NextPrompt]_vars

\* the event loop runs a handler whose event has occurred
FairSpecPrompt ==
    /\ SpecPrompt
    /\ WF_vars(readPending)
    /\ WF_vars(onInputEnd)

\* a poll on its own: no status check is in progress
PollStart ==
    /\ PollInit
    /\ NotCalled
    /\ PromptIdle
    /\ CmdIdle
    /\ head = NoValue
    /\ configSlug = NoValue

SpecPoll == PollStart /\ [][PollNext]_vars

\* a poll whose requests all call back and whose timers all fire
FairSpecPoll ==
    /\ SpecPoll
    /\ WF_vars(queryWithWait)
    /\ WF_vars(\E resp \in Responses(pollKind), latency \in Latencies : checkBuild(resp, latency))
    /\ WF_vars(\E late \in Lateness : timerFire(late))

\* The texts a response body may consist of: a JSON object, the JSON null, and
\* two texts that are not JSON.
JsonObjectText == <<"{", "f", "}">>
JsonNullText == <<"n", "u", "l", "l">>
PlainText == <<"B", "o", "d", "y", "?">>
HttpTexts == {JsonObjectText, JsonNullText, PlainText, <<>>}

JsonSyntaxError == [name |-> "SyntaxError", message |-> "Unexpected token"]

\* JSON.parse(text) for these texts
JSON_parse(text) ==
    IF text = JsonObjectText THEN [threw |-> FALSE, v |-> NotFoundResult]
    ELSE IF text = JsonNullText THEN [threw |-> FALSE, v |-> JsNull]
    ELSE [threw |-> TRUE, e |-> JsonSyntaxError]

\* no error from the request module
NoRequestError == [name |-> "none"]
ConnectionError == [name |-> "Error", message |-> "ECONNRESET"]

\* what the request module calls back with: an error, or a response with its
\* status code and the body, which is a text unless request has parsed it
HttpResponses(kind) ==
    {[errRequest |-> ConnectionError, statusCode |-> 0, body |-> JsUndefined]}
        \cup [errRequest : {NoRequestError},
              statusCode : {200, 304, 400, 404},
              body : {ApiResult(kind, "started"), ApiResult(kind, "passed")}
                         \cup {JsString(text) : text \in HttpTexts}]

\* new Error(res.statusMessage)
StatusError(statusCode) == [name |-> "Error", message |-> "status message"]

\* typeof body === 'string'
IsText(body) == "t" \in DOMAIN body /\ body.t = "string"

\* err with statusCode and body attached
WithResponse(err, statusCode, body) ==
    [name |-> err.name, message |-> err.message, statusCode |-> statusCode, body |-> body]

\* faulty variant: every status outside 200..299 is an error
requestCallback_Not2xx(h) ==
    IF h.errRequest # NoRequestError THEN [t |-> "err", e |-> h.errRequest]
    ELSE LET isText == IsText(h.body)
             body == IF isText /\ ~JSON_parse(h.body.s).threw THEN JSON_parse(h.body.s).v
                     ELSE h.body
         IN  IF h.statusCode < 200 \/ h.statusCode > 299
             THEN [t |-> "err",
                   e |-> WithResponse(StatusError(h.statusCode), h.statusCode, body)]
             ELSE IF isText /\ JSON_parse(h.body.s).threw
             THEN [t |-> "err", e |-> WithResponse(JSON_parse(h.body.s).e, h.statusCode, body)]
             ELSE [t |-> "ok", r |-> body]

\* the callback of request(options, ...) in TravisStatusHttp.prototype.request:
\* the (err, body) it passes on
requestCallback(h) ==
    IF h.errRequest # NoRequestError THEN [t |-> "err", e |-> h.errRequest]
    ELSE LET isText == IsText(h.body)
             body == IF isText /\ ~JSON_parse(h.body.s).threw THEN JSON_parse(h.body.s).v
                     ELSE h.body
         IN  IF h.statusCode >= 400
             THEN [t |-> "err",
                   e |-> WithResponse(StatusError(h.statusCode), h.statusCode, body)]
             ELSE IF isText /\ JSON_parse(h.body.s).threw
             THEN [t |-> "err", e |-> WithResponse(JSON_parse(h.body.s).e, h.statusCode, body)]
             ELSE [t |-> "ok", r |-> body]

\* the request module calls back, and checkBuild receives what
\* TravisStatusHttp makes of it
httpResponse(h, latency) == checkBuild(requestCallback(h), latency)

\* a poll whose requests are answered through TravisStatusHttp
NextHttp ==
    \/ queryWithWait
    \/ \E h \in HttpResponses(pollKind), latency \in Latencies : httpResponse(h, latency)
    \/ \E late \in Lateness : timerFire(late)

SpecHttp == PollStart /\ [][NextHttp]_vars

-----------------------------------------------------------------------------
(* The commit path with its build query polled: travisStatus({repo, commit,
   wait}), where getRepo(slug, options) is followed by getBuild(slug, id) *)

\* faulty variant: the build query is given the caller's options as well
QueryOptionsWait_Always(call, callerWait) == callerWait

\* options.wait as queryWithWait reads it for a call of the API client:
\* getRepo and getBranch are passed the caller's options, getBuild is passed
\* none
QueryOptionsWait(call, callerWait) ==
    IF "options" \in DOMAIN call THEN callerWait ELSE JsUndefined

\* the waits with which the repository query is made at all
CommitWaits ==
    {w \in WaitValues : ~IsNaN(MaxWaitOf(w)) /\ ~IsNegative(MaxWaitOf(w))}

CommitOptionsValues ==
    { [NoOptions EXCEPT !.repo = JsString(SlugAB), !.commit = JsString(c)] :
          c \in {Sha1, TagName} }

CommitStart ==
    /\ PollInit
    /\ pollKind = "build"
    /\ wait \in CommitWaits
    /\ NotCalled
    /\ PromptIdle
    /\ CmdIdle
    /\ head = NoValue
    /\ configSlug = NoValue

\* the repository query settles; on a repository result getBuild is called,
\* which starts the poll of the build and issues its request
repoAnswer(answer) ==
    /\ api.op = "getRepo"
    /\ apiAnswered(answer)
    /\ IF api'.op = "getBuild"
       THEN queryWithWaitOf(QueryOptionsWait(api', wait))
       ELSE UNCHANGED pollVars
    /\ UNCHANGED promptVars
    /\ UNCHANGED cmdVars

\* what the promise of a poll hands to its reactions
SettledAnswer(p) ==
    IF p.k = "resolved" THEN [t |-> "ok", r |-> p.v] ELSE [t |-> "err", e |-> p.e]

\* the request of the build query calls back; when that settles the poll, the
\* merge and the check of the commit follow
buildAnswer(resp, latency) ==
    /\ api.op = "getBuild"
    /\ checkBuildOf(resp, latency)
    /\ IF promise'.k = "pending"
       THEN UNCHANGED orchVars
       ELSE apiAnswered(SettledAnswer(promise'))
    /\ UNCHANGED promptVars
    /\ UNCHANGED cmdVars

NextCommit ==
    \/ \E opts \in CommitOptionsValues : travisStatus(opts)
    \/ \E failed \in BOOLEAN : resolveHash(failed)
    \/ \E answer \in ApiAnswers(api) : repoAnswer(answer)
    \/ \E answer \in ApiAnswers(api), latency \in Latencies : buildAnswer(answer, latency)

SpecCommit == CommitStart /\ [][NextCommit]_vars

-----------------------------------------------------------------------------
(* bin/travis-status.js: the command.  Commander's parsing of the argument
   vector is not modelled: the parsed options are the input of the command.
   travisStatus is the collaborator the command calls; its outcome is the
   input of the callback the command gave it. *)

colors ==
    [canceled |-> "red", created |-> "yellow", errored |-> "red", failed |-> "red",
     passed |-> "green", queued |-> "yellow", ready |-> "green", received |-> "yellow",
     started |-> "yellow"]

isUnsuccessful == [canceled |-> TRUE, errored |-> TRUE, failed |-> TRUE]

\* isUnsuccessful[state]: undefined (falsy) for a state the table does not hold
StateIsUnsuccessful(state) == state \in DOMAIN isUnsuccessful /\ isUnsuccessful[state]

\* stateInfo.colors[state] || 'yellow'
StateColor(state) == IF state \in DOMAIN colors THEN colors[state] ELSE "yellow"

\* chalk[color](...) of a Chalk whose `enabled` is command.interactive
Chalk(enabled, color) == IF enabled THEN color ELSE "none"

\* the states a result may carry: the states Travis knows, one it does not,
\* and null (a repository that was never built), which indexes as "null"
CmdStates ==
    {"canceled", "created", "errored", "failed", "passed", "queued", "ready",
     "received", "started", "bogus", "null"}

BuildNumbers == {<<"1">>, <<"4", "2">>}

\* the results travisStatus may yield: a repository, a branch, and a
\* repository merged with a build of another state (the commit path)
CmdResults ==
    { [repo |-> [last_build_state |-> s, last_build_number |-> n]] :
          s \in CmdStates, n \in BuildNumbers }
      \cup { [branch |-> [state |-> s, number |-> n]] : s \in CmdStates, n \in BuildNumbers }
      \cup { [repo |-> [last_build_state |-> s, last_build_number |-> <<"1">>],
              build |-> [state |-> "passed", number |-> <<"1">>]] : s \in CmdStates }

\* the errors travisStatus may yield
CmdErrors ==
    { SlugDetectionError("No remotes"), SlugDetectionError("Could not parse"),
      ApiError, GitError(128), EOFError, InvalidUrlError,
      [name |-> "Error", message |-> "SlugDetectionError"] }

CmdOutcomes == {Resolved(r) : r \in CmdResults} \cup {Rejected(e) : e \in CmdErrors}

\* -w without a value (true), with a number, with a text that is no number
CmdWaits == {JsUndefined, JsBoolean(TRUE), JsString(<<"8", "0", "0", "0">>), JsString(<<"h", "i">>)}

CmdArgs ==
    [interactive : BOOLEAN, exitCode : BOOLEAN, failPending : BOOLEAN, quiet : BOOLEAN,
     wait : CmdWaits, extra : BOOLEAN]

\* command.wait after the conversions: true is Infinity, and seconds become
\* milliseconds
CmdWait(w) ==
    LET n == IF w = JsBoolean(TRUE) THEN PosInf ELSE ToNumber(w)
    IN  IF n.k = "fin" THEN Fin(n.n * 1000) ELSE n

\* build.repo ? build.repo.last_build_state : build.branch.state
BuildState(build) ==
    IF "repo" \in DOMAIN build THEN build.repo.last_build_state ELSE build.branch.state

\* build.repo ? build.repo.last_build_number : build.branch.number
BuildNumber(build) ==
    IF "repo" \in DOMAIN build THEN build.repo.last_build_number ELSE build.branch.number

\* faulty variant: a pending build fails the command whether or not
\* --fail-pending was given
exitCodeFor_PendingFails(cmd, state) ==
    IF (cmd.exitCode /\ StateIsUnsuccessful(state)) \/ StateIsPending(state)
    THEN 1 ELSE 0

\* the exit code of a result of the given state
exitCodeFor(cmd, state) ==
    IF (cmd.exitCode /\ StateIsUnsuccessful(state))
           \/ (cmd.failPending /\ StateIsPending(state))
    THEN 1 ELSE 0

RepoNameHint == "Can't figure out GitHub repo name. ..."

\* faulty variant: every error is reported by its message
errorNotice_MessageOnly(cmd, err) ==
    [message |-> err.message, color |-> Chalk(cmd.interactive, "red")]

\* what the command writes to the err stream for an error of travisStatus
errorNotice(cmd, err) ==
    IF err.name = "SlugDetectionError"
    THEN [hint |-> RepoNameHint, color |-> Chalk(cmd.interactive, "red")]
    ELSE [message |-> err.message, color |-> Chalk(cmd.interactive, "red")]

\* the callback's arguments
Exit(err, code) == [called |-> TRUE, err |-> err, code |-> code]

\* travisStatusCmd(args, options, callback) with valid streams, from the
\* parsed options on: the checks of the arguments, then the call of travisStatus
travisStatusCmd(args) ==
    /\ pc = "start"
    /\ command = NoCommand
    /\ IF args.extra
       THEN /\ errLog' = Append(errLog, [usage |-> "too many arguments",
                                         color |-> Chalk(args.interactive, "red")])
            /\ exit' = Exit(JsNull, 1)
            /\ pc' = "done"
            /\ UNCHANGED command
       ELSE IF args.wait # JsUndefined /\ IsNaN(CmdWait(args.wait))
       THEN /\ errLog' = Append(errLog, [usage |-> "invalid wait time",
                                         color |-> Chalk(args.interactive, "red")])
            /\ exit' = Exit(JsNull, 1)
            /\ pc' = "done"
            /\ UNCHANGED command
       ELSE /\ command' = [interactive |-> args.interactive, exitCode |-> args.exitCode,
                           failPending |-> args.failPending, quiet |-> args.quiet,
                           wait |-> IF args.wait = JsUndefined THEN JsUndefined
                                    ELSE JsNumber(CmdWait(args.wait)),
                           requestOpts |-> [t |-> "object", forever |-> JsBoolean(TRUE)]]
            /\ pc' = "running"
            /\ UNCHANGED <<errLog, exit>>
    /\ UNCHANGED <<options, outcome, repoSlugP, localCommitP, branchP, slugForQueryP,
                   resultP, slugPc, carried, hashPc, branchPc, api, apiCalls, repoResult,
                   answers, agent, destroyed, clientOpts, gitCalls, head, configSlug,
                   configWrites, linesLeft, outLog>>
    /\ UNCHANGED pollVars
    /\ UNCHANGED promptVars

\* the callback the command gave to travisStatus, called with its outcome
travisStatusDone(result) ==
    /\ pc = "running"
    /\ command # NoCommand
    /\ exit = NotCalledBack
    /\ outcome' = result
    /\ pc' = "done"
    /\ IF result.k = "rejected"
       THEN /\ errLog' = Append(errLog, errorNotice(command, result.e))
            /\ exit' = Exit(JsNull, 1)
            /\ UNCHANGED outLog
       ELSE /\ outLog' = IF command.quiet THEN outLog
                         ELSE Append(outLog,
                                     [number |-> BuildNumber(result.v),
                                      state |-> BuildState(result.v),
                                      color |-> Chalk(command.interactive,
                                                      StateColor(BuildState(result.v)))])
            /\ exit' = Exit(JsNull, exitCodeFor(command, BuildState(result.v)))
            /\ UNCHANGED errLog
    /\ UNCHANGED <<options, repoSlugP, localCommitP, branchP, slugForQueryP,
                   resultP, slugPc, carried, hashPc, branchPc, api, apiCalls, repoResult,
                   answers, agent, destroyed, clientOpts, gitCalls, head, configSlug,
                   configWrites, linesLeft, command>>
    /\ UNCHANGED pollVars
    /\ UNCHANGED promptVars

NextCmd ==
    \/ \E args \in CmdArgs : travisStatusCmd(args)
    \/ \E result \in CmdOutcomes : travisStatusDone(result)

\* one run of the command: no git command runs, travisStatus is its collaborator
CmdStart ==
    /\ NotCalled
    /\ PollIdle
    /\ PromptIdle
    /\ CmdIdle
    /\ head = NoValue
    /\ configSlug = NoValue

SpecCmd == CmdStart /\ [][NextCmd]_vars

-----------------------------------------------------------------------------
(* Properties of a poll, checked under SpecPoll *)

\* the response carries a result of the polled kind whose state is not pending
IsFinalResponse(kind, resp) ==
    /\ resp.t = "ok"
    /\ resp.r \in {ApiResult(kind, s) : s \in ApiStates \ PendingStateNames}

\* the delay before the i-th retry when the budget does not bind
RECURSIVE BackoffDelay(_)
BackoffDelay(i) ==
    IF i <= 1 THEN POLL_TIME_START_MS
    ELSE Min(2 * BackoffDelay(i - 1), POLL_TIME_MAX_MS)

\* the sum of the first n retry delays
RECURSIVE TotalBackoff(_)
TotalBackoff(n) == IF n <= 0 THEN 0 ELSE TotalBackoff(n - 1) + BackoffDelay(n)

\* the budget is at least the total backoff of n retries
CoversBackoff(maxWait, n) ==
    maxWait.k = "inf" \/ (maxWait.k = "fin" /\ maxWait.n >= TotalBackoff(n))

\* the budget is finite and the time since the start of the poll has reached it
BudgetElapsed == maxWaitMs.k = "fin" /\ nowMs - startMs >= maxWaitMs.n

\* every response so far but the last was pending, and the last is final
PendingThenFinal ==
    /\ IsFinalResponse(pollKind, lastResp)
    /\ pendingSeen = responses - 1

\* every response so far was pending and the poll has given up on the last
GaveUpPending ==
    /\ pollPc = "settled"
    /\ IsPendingResponse(pollKind, lastResp)
    /\ pendingSeen = responses

\* C4: when wait is 0 or absent, a poll of any kind issues exactly one
\* request, sets no timer, and resolves with the result of that request
\* whatever its state, a pending state included.
C4_NoWaitOneRequest ==
    wait \in {JsUndefined, JsNumber(Fin(0))} =>
        /\ requests <= 1
        /\ timersSet = 0
        /\ pollPc # "start" => requests = 1
        /\ lastResp.t = "ok" => promise = Resolved(lastResp.r)

C4_Witness ==
    /\ wait = JsUndefined
    /\ IsPendingResponse(pollKind, lastResp)
    /\ promise = Resolved(lastResp.r)
    /\ requests = 1

\* C5 as stated: with a budget of at least the total backoff of N retries, a
\* poll answered by N pending results and then a final one never gives up on
\* one of the pending results, issues exactly N + 1 requests and resolves with
\* the final result.
C5_BudgetCoversBackoff ==
    /\ GaveUpPending => ~CoversBackoff(maxWaitMs, pendingSeen)
    /\ (PendingThenFinal /\ CoversBackoff(maxWaitMs, pendingSeen)) =>
           /\ promise = Resolved(lastResp.r)
           /\ requests = pendingSeen + 1

\* C5 amended: a poll gives up on a pending result only when the budget has
\* elapsed on its receipt (the time the requests took included); answered by N
\* pending results and then a final one, it has issued exactly N + 1 requests
\* and resolves with the final result.
C5_BudgetNotElapsed ==
    /\ GaveUpPending => BudgetElapsed
    /\ PendingThenFinal =>
           /\ promise = Resolved(lastResp.r)
           /\ requests = pendingSeen + 1

C5_Witness ==
    /\ PendingThenFinal
    /\ pendingSeen = 3
    /\ slowLeft < MaxSlow
    /\ promise = Resolved(lastResp.r)
    /\ requests = 4

\* C6: when the budget has elapsed on receipt of a pending result, the poll
\* resolves with that result; a poll is rejected only for an invalid wait, a
\* failed request or a result the classifier cannot read, never for running
\* out of budget.
C6_TimeoutResolvesPending ==
    /\ ( /\ pollPc \in {"sleeping", "settled"}
         /\ IsPendingResponse(pollKind, lastResp)
         /\ BudgetElapsed )
           => promise = Resolved(lastResp.r)
    /\ promise.k = "rejected" =>
           \/ responses = 0 /\ promise.e \in {WaitTypeError, WaitRangeError}
           \/ lastResp.t = "err"
           \/ lastResp = [t |-> "ok", r |-> NotFoundResult]

C6_Witness ==
    /\ maxWaitMs = Fin(10000)
    /\ IsPendingResponse(pollKind, lastResp)
    /\ nowMs - startMs >= 10000
    /\ requests >= 3
    /\ promise = Resolved(lastResp.r)

\* C7: once a request has failed, the first or a retry, the poll is rejected
\* with that error, nothing is in flight, no timer is set, and no request or
\* timer follows.
C7_ErrorEndsPoll ==
    lastResp.t = "err" =>
        /\ promise = Rejected(lastResp.e)
        /\ pollPc = "settled"
        /\ inFlight = 0
        /\ timers = 0
        /\ requests = responses
        /\ timersSet = timersFired

C7_Witness ==
    /\ lastResp.t = "err"
    /\ requests >= 2
    /\ ~BudgetElapsed
    /\ promise = Rejected(lastResp.e)

\* C8 as stated: a wait that is given and is not a number (its conversion
\* Number(wait) is NaN, as for NaN itself, a word or an object) is rejected
\* with a TypeError, a wait that converts to a negative number with a
\* RangeError, and no request is issued.
C8_NonNumberIsTypeError ==
    pollPc # "start" =>
        /\ (wait # JsUndefined /\ IsNaN(ToNumber(wait))) =>
               promise = Rejected(WaitTypeError) /\ requests = 0
        /\ (wait # JsUndefined /\ IsNegative(ToNumber(wait))) =>
               promise = Rejected(WaitRangeError) /\ requests = 0

\* C8 amended: a truthy wait whose conversion Number(wait) is NaN is rejected
\* with a TypeError, a wait whose conversion is negative with a RangeError, and
\* no request is issued; every other wait (a falsy one, NaN included, taken as
\* 0, or one that converts to a non-negative number) is accepted and one
\* request is issued.
C8_ConversionDecides ==
    pollPc # "start" =>
        LET converted == ToNumber(wait) IN
        IF ToBoolean(wait) /\ converted.k = "nan"
        THEN promise = Rejected(WaitTypeError) /\ requests = 0
        ELSE IF ToBoolean(wait) /\ (converted.k = "ninf" \/ (converted.k = "fin" /\ converted.n < 0))
        THEN promise = Rejected(WaitRangeError) /\ requests = 0
        ELSE requests >= 1 /\ promise \notin {Rejected(WaitTypeError), Rejected(WaitRangeError)}

C8_Witness ==
    /\ wait = JsString(<<"h", "i">>)
    /\ promise = Rejected(WaitTypeError)
    /\ requests = 0

\* C9: within one poll at most one request is in flight and at most one timer
\* is set, never both; the n-th request is issued only after n - 1 responses
\* were received and n - 1 timers fired, and a timer is set only on a response.
C9_SequentialRetries ==
    /\ inFlight + timers <= 1
    /\ inFlight = requests - responses
    /\ timers = timersSet - timersFired
    /\ timersSet <= responses
    /\ requests > 0 => requests = timersFired + 1

C9_Witness ==
    /\ requests = 3
    /\ inFlight = 1
    /\ timersFired = 2
    /\ responses = 2

-----------------------------------------------------------------------------
(* Properties of a status check, checked under Spec *)

\* the promise p is rejected with the error the status check ended with
FailedWith(p) == p.k = "rejected" /\ outcome = Rejected(p.e)

\* the local operation behind a promise fails in this step
FailsNow(before, after) == before.k # "rejected" /\ after.k = "rejected"

\* this step leaves the outcome rejected with the error of the promise that
\* fails in it, unless the outcome was settled before
FirstFailureWins(before, after) ==
    FailsNow(before, after) =>
        /\ apiCalls' = <<>>
        /\ outcome' = IF outcome = Pending THEN Rejected(after.e) ELSE outcome

\* the slugs of the remote queries that take the slug travisStatus resolved
QueriedSlugs ==
    {apiCalls[i].slug : i \in {j \in DOMAIN apiCalls : apiCalls[j].op \in {"getRepo", "getBranch"}}}

\* the values storeSlug wrote, or asked git to write, to travis.slug
StoredSlugs ==
    {configWrites[i] : i \in DOMAIN configWrites}
        \cup {gitCalls[i].value : i \in {j \in DOMAIN gitCalls : gitCalls[j].cmd = "config"}}

\* an option that was given, whatever its value
Supplied(v) == v # JsUndefined

\* C1 (as stated): no remote query is issued before the slug resolution and,
\* with options.commit, resolveHash have succeeded; if either of them fails,
\* the status check fails with the error of one of them that failed, and no
\* remote query is issued.
C1_SlugOrHashFailure ==
    /\ apiCalls # <<>> =>
           repoSlugP.k = "resolved" /\ localCommitP.k \in {"resolved", "none"}
    /\ (repoSlugP.k = "rejected" \/ localCommitP.k = "rejected") =>
           /\ apiCalls = <<>>
           /\ FailedWith(repoSlugP) \/ FailedWith(localCommitP)

\* C1 (amended): no remote query is issued before the slug resolution and,
\* with options.commit, resolveHash have succeeded; when the slug resolution,
\* resolveHash or, with options.branch === true, detectBranch fails, no remote
\* query has been or will be issued and the status check fails with that
\* error unless it has already failed, which then was with the error of the
\* local operation that failed first.
C1_FirstLocalFailure ==
    [][/\ apiCalls' # <<>> =>
              repoSlugP'.k = "resolved" /\ localCommitP'.k \in {"resolved", "none"}
       /\ apiCalls # <<>> => apiCalls' # <<>>
       /\ FirstFailureWins(repoSlugP, repoSlugP')
       /\ FirstFailureWins(localCommitP, localCommitP')
       /\ FirstFailureWins(branchP, branchP')]_vars

\* resolveHash failed after the slug was resolved: the status check failed with
\* the error of resolveHash and no query was issued
C1_Witness ==
    /\ repoSlugP.k = "resolved"
    /\ localCommitP.k = "rejected"
    /\ FailedWith(localCommitP)
    /\ apiCalls = <<>>

\* C2 (as stated): if options.repo or options.storeRepo is supplied and does
\* not match the slug format, the status check fails with an InvalidSlugError,
\* no git command is run and no remote query is issued.
C2_SuppliedInvalidSlug ==
    (/\ pc # "start"
     /\ \/ Supplied(options.repo) /\ ~SLUG_VALID_RE(options.repo.s)
        \/ Supplied(options.storeRepo) /\ ~SLUG_VALID_RE(options.storeRepo.s)) =>
        /\ outcome.k = "rejected"
        /\ outcome.e.name = "InvalidSlugError"
        /\ gitCalls = <<>>
        /\ apiCalls = <<>>

\* C2 (amended): if options.repo or options.storeRepo is a non-empty string
\* that does not match the slug format, the status check fails with an
\* InvalidSlugError for that string, no git command is run and no remote
\* query is issued; an empty string counts as not supplied.
C2_NonEmptyInvalidSlug ==
    (/\ pc # "start"
     /\ \/ Truthy(options.repo) /\ ~SLUG_VALID_RE(options.repo.s)
        \/ Truthy(options.storeRepo) /\ ~SLUG_VALID_RE(options.storeRepo.s)) =>
        /\ pc = "done"
        /\ outcome.k = "rejected"
        /\ outcome.e.name = "InvalidSlugError"
        /\ \/ Truthy(options.repo) /\ outcome.e = InvalidSlugError(options.repo.s)
           \/ Truthy(options.storeRepo) /\ outcome.e = InvalidSlugError(options.storeRepo.s)
        /\ gitCalls = <<>>
        /\ apiCalls = <<>>

\* a valid repo with an invalid storeRepo, and a commit to resolve: rejected
\* before anything ran
C2_Witness ==
    /\ pc = "done"
    /\ Truthy(options.repo) /\ SLUG_VALID_RE(options.repo.s)
    /\ Truthy(options.storeRepo) /\ ~SLUG_VALID_RE(options.storeRepo.s)
    /\ Truthy(options.commit)
    /\ outcome = Rejected(InvalidSlugError(options.storeRepo.s))
    /\ gitCalls = <<>>

\* C3: every slug passed to getRepo or getBranch and every slug storeSlug
\* writes to the git config matches the slug format, whatever its source.
C3_SlugsWellFormed ==
    /\ \A slug \in QueriedSlugs : SLUG_VALID_RE(slug)
    /\ \A slug \in StoredSlugs : SLUG_VALID_RE(slug)

\* a slug the user entered at the prompt, after a first answer that was not
\* valid, was stored and queried
C3_Witness ==
    /\ \E i \in DOMAIN errLog : errLog[i] = AskNotValid
    /\ configWrites # <<>>
    /\ QueriedSlugs = {configWrites[1]}
    /\ configWrites[1] \notin {SlugAB, NoSlash}

\* C10: with both options.repo and options.storeRepo, the value written to
\* the git config is storeRepo, the slug queried is repo, and the query is
\* issued only after the store attempt has ended.
C10_StoreOneQueryOther ==
    (Truthy(options.repo) /\ Truthy(options.storeRepo)) =>
        /\ \A slug \in StoredSlugs : slug = options.storeRepo.s
        /\ \A slug \in QueriedSlugs : slug = options.repo.s
        /\ apiCalls # <<>> => slugPc = "done" /\ StoredSlugs # {}

\* storeRepo was written, then repo was queried
C10_Witness ==
    /\ Truthy(options.repo) /\ Truthy(options.storeRepo)
    /\ options.repo.s # options.storeRepo.s
    /\ configWrites = <<options.storeRepo.s>>
    /\ QueriedSlugs = {options.repo.s}

\* C11: with options.branch set (a name, or true for the current branch), the
\* only remote query ever made is one branch query, for the resolved slug and
\* branch; no repository query and no build query is made, with or without
\* options.commit, and the status check does not resolve without that query.
C11_BranchQueryOnly ==
    (pc # "start" /\ Truthy(options.branch)) =>
        /\ Len(apiCalls) <= 1
        /\ apiCalls # <<>> =>
               /\ repoSlugP.k = "resolved"
               /\ branchP.k = "resolved"
               /\ apiCalls[1] = GetBranch(repoSlugP.v, branchP.v)
               /\ IsTrue(options.branch) => branchP.v = head
               /\ ~IsTrue(options.branch) => branchP.v = options.branch.s
        /\ outcome.k = "resolved" => Len(apiCalls) = 1

\* the current branch was detected and queried, with a commit to check, and
\* the status check resolved
C11_Witness ==
    /\ IsTrue(options.branch)
    /\ Truthy(options.commit)
    /\ outcome.k = "resolved"
    /\ apiCalls = <<GetBranch(repoSlugP.v, head)>>

\* C12: with options.commit set and options.branch not, the repository is
\* queried first, then the build the repository result names by its slug and
\* last_build_id, and nothing else; the result has the top-level keys of both
\* bodies, with the build's value for every key the build body has and the
\* repository's value for the others.
C12_RepoThenBuildMerged ==
    (pc # "start" /\ Truthy(options.commit) /\ ~Truthy(options.branch)) =>
        /\ Len(apiCalls) <= 2
        /\ apiCalls # <<>> =>
               repoSlugP.k = "resolved" /\ apiCalls[1] = GetRepo(repoSlugP.v)
        /\ (answers # <<>> /\ "repo" \in DOMAIN answers[1]) => Len(apiCalls) = 2
        /\ Len(apiCalls) = 2 =>
               /\ answers # <<>>
               /\ "repo" \in DOMAIN answers[1]
               /\ apiCalls[2] = [op |-> "getBuild", slug |-> answers[1].repo.slug,
                                 id |-> answers[1].repo.last_build_id]
        /\ resultP.k = "resolved" =>
               /\ Len(answers) = 2
               /\ DOMAIN resultP.v = DOMAIN answers[1] \cup DOMAIN answers[2]
               /\ \A key \in DOMAIN resultP.v :
                      resultP.v[key] = IF key \in DOMAIN answers[2] THEN answers[2][key]
                                       ELSE answers[1][key]
        /\ outcome.k = "resolved" => outcome = resultP

\* the build body carried a key the repository body has too, and the status
\* check resolved with the build's value for it
C12_Witness ==
    /\ Truthy(options.commit) /\ ~Truthy(options.branch)
    /\ outcome.k = "resolved"
    /\ Len(answers) = 2
    /\ "repo" \in DOMAIN answers[2]
    /\ answers[1].repo # answers[2].repo
    /\ outcome.v.repo = answers[2].repo
    /\ outcome.v.commit = answers[2].commit

\* the text `part` occurs in the text `whole`
Contains(whole, part) ==
    \E i \in 1..(Len(whole) - Len(part) + 1) : SubSeq(whole, i, i + Len(part) - 1) = part

\* the API result and the local commit are both there and the result has a commit
CommitChecked ==
    /\ resultP.k = "resolved"
    /\ localCommitP.k = "resolved"
    /\ "commit" \in DOMAIN resultP.v

\* C13: checkBuildCommit(result, localCommit), for a result that has a commit:
\* when result.commit.sha equals localCommit.sha the result is returned
\* unchanged; otherwise an AssertionError is thrown whose message contains
\* both hashes and, when localCommit.name is set, that name.
C13_CommitVerified ==
    CommitChecked =>
        IF resultP.v.commit.sha = localCommitP.v.sha
        THEN outcome = Resolved(resultP.v)
        ELSE /\ outcome.k = "rejected"
             /\ outcome.e.name = "AssertionError"
             /\ Contains(outcome.e.message, resultP.v.commit.sha)
             /\ Contains(outcome.e.message, localCommitP.v.sha)
             /\ "name" \in DOMAIN localCommitP.v =>
                    Contains(outcome.e.message, localCommitP.v.name)

\* a tag was resolved to a hash, the build is of another commit, and the
\* status check failed with a message that names the tag
C13_Witness ==
    /\ CommitChecked
    /\ "name" \in DOMAIN localCommitP.v
    /\ localCommitP.v.name = TagName
    /\ resultP.v.commit.sha = Sha2
    /\ localCommitP.v.sha = Sha1
    /\ outcome.k = "rejected"
    /\ Contains(outcome.e.message, TagName)

\* C14: with options.commit not set, no hash is resolved, at most one remote
\* query is made (of the repository, or of the branch), no build is queried,
\* and the status check resolves with exactly the body that query was
\* answered with, whatever it holds: nothing is verified.
C14_NoCommitNoVerification ==
    (pc # "start" /\ ~Truthy(options.commit)) =>
        /\ hashPc = "idle"
        /\ localCommitP = NoPromise
        /\ \A i \in DOMAIN gitCalls : gitCalls[i].cmd # GitRevParse(<<>>).cmd
        /\ Len(apiCalls) <= 1
        /\ \A i \in DOMAIN apiCalls : apiCalls[i].op \in {"getRepo", "getBranch"}
        /\ Len(answers) <= 1
        /\ answers # <<>> => outcome = Resolved(answers[1])
        /\ outcome.k = "resolved" => Len(answers) = 1

\* the repository query was answered with a body that has no commit, and the
\* status check resolved with it
C14_Witness ==
    /\ ~Truthy(options.commit)
    /\ apiCalls # <<>> /\ apiCalls[1].op = "getRepo"
    /\ Len(answers) = 1
    /\ "repo" \in DOMAIN answers[1]
    /\ outcome = Resolved(answers[1])

\* C15: every keep-alive agent travisStatus makes has been destroyed exactly
\* once when the outcome is delivered, whether the check succeeded or failed,
\* and is never destroyed earlier or more often.
C15_AgentDestroyedOnce ==
    /\ destroyed <= 1
    /\ pc # "done" => destroyed = 0
    /\ pc = "done" /\ agent # NoAgent => destroyed = 1

\* an agent was made, the constructor of the git checker threw, and the
\* rejection was delivered with the agent still alive
C15_Witness ==
    /\ pc = "done"
    /\ agent # NoAgent
    /\ destroyed = 0
    /\ outcome = Rejected(StreamError)

\* the caller's requestOpts defines one of agent, agentClass, agentOptions,
\* forever and pool
CallerChoseAgent ==
    /\ pc # "start"
    /\ options.requestOpts # JsUndefined
    /\ \E key \in {"agent", "agentClass", "agentOptions", "forever", "pool"} :
           /\ key \in DOMAIN options.requestOpts
           /\ options.requestOpts[key] # JsUndefined

\* C16: when the caller's requestOpts defines any of agent, agentClass,
\* agentOptions, forever or pool, travisStatus makes no agent, destroys
\* nothing, and the API client it constructs gets the caller's requestOpts as
\* given.
C16_CallerAgentKept ==
    CallerChoseAgent =>
        /\ agent = NoAgent
        /\ destroyed = 0
        /\ clientOpts \in {NoClient, options.requestOpts}

\* a check with the caller's pool and timeout ran to a result
C16_Witness ==
    /\ CallerChoseAgent
    /\ "pool" \in DOMAIN options.requestOpts
    /\ clientOpts = options.requestOpts
    /\ pc = "done"
    /\ outcome.k = "resolved"

\* two non-empty segments free of whitespace and "/", joined by one "/"
TwoSegments(s) ==
    /\ s # <<>>
    /\ Cardinality({i \in 1..Len(s) : s[i] = "/"}) = 1
    /\ s[1] # "/"
    /\ s[Len(s)] # "/"
    /\ \A i \in 1..Len(s) : s[i] \notin {" ", "\n"}

\* C17: checkSlugFormat returns its argument unchanged for every string made
\* of two non-empty segments free of whitespace and "/" joined by one "/", and
\* throws InvalidSlugError for every other string; travisStatus called with
\* such a repo queries that very slug, or fails with that error.
C17_SlugFormat ==
    /\ \A s \in SlugStrings \cup {<<>>} :
           checkSlugFormat(s) = IF TwoSegments(s) THEN [threw |-> FALSE, v |-> s]
                                ELSE [threw |-> TRUE, e |-> InvalidSlugError(s)]
    /\ pc # "start" =>
           IF TwoSegments(options.repo.s)
           THEN /\ repoSlugP = Resolved(options.repo.s)
                /\ outcome.k = "rejected" => outcome.e.name # "InvalidSlugError"
           ELSE /\ outcome = Rejected(InvalidSlugError(options.repo.s))
                /\ apiCalls = <<>>

\* a well-formed name of four characters was accepted, queried and answered
C17_Witness ==
    /\ pc = "done"
    /\ options.repo = JsString(<<"a", "b", "/", "a">>)
    /\ apiCalls = <<GetRepo(<<"a", "b", "/", "a">>)>>
    /\ outcome.k = "resolved"

\* where the slug resolution stands while detectSlug() runs
Detecting(at) == at \in {"detectBranch", "branchRemote", "lsRemote", "agree", "ask"}

\* the git config holds a slug
SlugIsStored == TrimRight(configSlug) # <<>>

\* C18: with neither repo nor storeRepo given, a stored slug is the one
\* findSlug uses, and then no autodetection runs: no lookup of the branch or
\* the remote, no prompt, no notice.  Autodetection starts only from a load
\* that found no stored slug.
C18_StoredSlugUsed ==
    [][ (~Truthy(options'.repo) /\ ~Truthy(options'.storeRepo)) =>
          /\ (slugPc = "load" /\ slugPc' # "load" /\ SlugIsStored
                  /\ repoSlugP' \notin {Rejected(GitError(code)) : code \in GitExitCodes}) =>
                 /\ ~Detecting(slugPc')
                 /\ carried' = TrimRight(configSlug)
                 /\ errLog' = errLog
                 /\ linesLeft' = linesLeft
                 /\ \A i \in (Len(gitCalls) + 1)..Len(gitCalls') :
                        gitCalls'[i] = GitConfigSet(SLUG_CONFIG_NAME, TrimRight(configSlug))
          /\ (Detecting(slugPc') /\ ~Detecting(slugPc)) =>
                 slugPc = "load" /\ ~SlugIsStored
          /\ (Detecting(slugPc) /\ ~Detecting(slugPc')) => slugPc' \in {"store", "done"}
          /\ slugPc \in {"store", "done"} => slugPc' \in {"store", "done"}
      ]_vars

\* the stored slug was loaded and queried: one git command, nothing written
\* to the err stream, no line read
C18_Witness ==
    /\ ~Truthy(options.repo) /\ ~Truthy(options.storeRepo)
    /\ pc = "done"
    /\ outcome.k = "resolved"
    /\ configSlug = SlugAB
    /\ apiCalls = <<GetRepo(SlugAB)>>
    /\ gitCalls = <<GitConfigGet(SLUG_CONFIG_NAME, <<>>)>>
    /\ errLog = <<>>
    /\ linesLeft = MaxLines

\* the steps of detectSlug() before the slug is confirmed or announced
DetectSteps == {"detectBranch", "branchRemote", "lsRemote"}

\* C19 as stated: whenever a step of the autodetection (current branch, its
\* remote, the remote's URL, the extraction of owner/name) ends it in failure,
\* the error is a SlugDetectionError.  The InvalidSlugError that travisStatus
\* raises for a detected name of the wrong format is left aside.
C19_AlwaysSlugDetectionError ==
    [][ (slugPc \in DetectSteps /\ repoSlugP'.k = "rejected"
             /\ repoSlugP'.e.name # "InvalidSlugError") =>
            repoSlugP'.e.name = "SlugDetectionError"
      ]_vars

\* C19: the autodetection does not fail when the current branch or its remote
\* cannot be determined (it goes on with the remote origin); it fails with a
\* SlugDetectionError when the remote has no URL or owner/name cannot be
\* extracted from the URL; a failure of the `git ls-remote` command itself is
\* delivered as that command's error.
C19_DetectionErrors ==
    [][ (slugPc \in DetectSteps) =>
          /\ slugPc \in {"detectBranch", "branchRemote"} =>
                 /\ repoSlugP' = Pending
                 /\ slugPc' \in DetectSteps
                 /\ slugPc' # slugPc =>
                        gitCalls'[Len(gitCalls')].cmd \in {"config --get", "ls-remote --get-url"}
          /\ (slugPc = "lsRemote" /\ repoSlugP'.k = "rejected") =>
                 \/ repoSlugP'.e = SlugDetectionError("No URL for remote")
                        /\ carried' = carried
                 \/ repoSlugP'.e = SlugDetectionError("Unable to extract slug from URL")
                        /\ ~extractSlug(gitUrlPath(carried')).match
                 \/ repoSlugP'.e = GitError(128)
                 \/ repoSlugP'.e = InvalidSlugError(carried')
      ]_vars

\* HEAD was detached, `git ls-remote --get-url origin` failed, and the check
\* failed with the error of that command
C19_Witness ==
    /\ pc = "done"
    /\ head = NoValue
    /\ gitCalls = <<GitConfigGet(SLUG_CONFIG_NAME, <<>>), GitSymbolicRef, GitLsRemote(Origin)>>
    /\ outcome = Rejected(GitError(128))

\* what the user entered: the line without its trailing whitespace, or the
\* detected slug when the line is empty
Entry(line, detected) ==
    LET given == IF line = <<>> THEN detected ELSE line
        last == IF \E i \in 1..Len(given) : given[i] \notin {" ", "\n"}
                THEN CHOOSE i \in 1..Len(given) :
                         /\ given[i] \notin {" ", "\n"}
                         /\ \A j \in (i + 1)..Len(given) : given[j] \in {" ", "\n"}
                ELSE 0
    IN  SubSeq(given, 1, last)

\* C20: in confirmSlug, once the user has rejected the detected slug, every
\* line entered that does not match the slug format is answered with the
\* invalid-slug notice and a new prompt, and the prompt is left with a slug
\* only for an entry (the detected slug on an empty line) that matches it.
C20_RepromptUntilValid ==
    [][ /\ \A line \in Answers :
               ask(line) =>
                   IF TwoSegments(Entry(line, carried))
                   THEN /\ slugPc' # "ask"
                        /\ carried' = Entry(line, carried)
                        /\ errLog' = errLog
                   ELSE /\ slugPc' = "ask"
                        /\ carried' = carried
                        /\ repoSlugP' = Pending
                        /\ errLog' = errLog \o <<AskNotValid, AskQuestion(carried)>>
        /\ (slugPc = "ask" /\ slugPc' # "ask" /\ repoSlugP' # Rejected(EOFError)) =>
               TwoSegments(carried')
        /\ (slugPc = "agree" /\ slugPc' = "ask") =>
               errLog' = errLog \o <<AskQuestion(carried)>>
      ]_vars

\* the user said no, entered a line that is no slug, was told so and asked
\* again, and then entered a slug, which is the one queried
C20_Witness ==
    /\ linesLeft = 0
    /\ \E i \in 1..(Len(errLog) - 2) :
           /\ errLog[i].text = AskQuestion(carried).text
           /\ errLog[i + 1] = AskNotValid
           /\ errLog[i + 2].text = AskQuestion(carried).text
    /\ apiCalls # <<>>
    /\ apiCalls[1].slug = SlugCD
    /\ pc = "done"

\* the input has ended and holds no complete line for the waiting prompt
InputExhausted ==
    /\ slugPc \in {"agree", "ask"}
    /\ ended
    /\ \A i \in 1..Len(buffered) : buffered[i] # "\n"

\* C21: when the input stream ends while a prompt waits for a line, also
\* after part of a line without a newline, the prompt and confirmSlug with it
\* fail with the EOFError 'The input stream is exhausted.': the text read so
\* far is no answer, and the prompt does not stay pending.
C21_EndOfInputRejects ==
    /\ [][ (InputExhausted /\ (slugPc' # slugPc \/ repoSlugP' # repoSlugP
                                   \/ errLog' # errLog \/ configWrites' # configWrites)) =>
               /\ slugPc' = "done"
               /\ repoSlugP' = Rejected([name |-> "EOFError",
                                         message |-> "The input stream is exhausted."])
               /\ errLog' = errLog
               /\ configWrites' = configWrites
               /\ apiCalls' = <<>>
         ]_vars
    /\ InputExhausted ~>
           (slugPc = "done" /\ outcome = Rejected([name |-> "EOFError",
                                                  message |-> "The input stream is exhausted."]))

\* the user typed y without a newline and closed the input: the check failed
\* with the EOFError
C21_Witness ==
    /\ pc = "done"
    /\ ended
    /\ response = <<"y">>
    /\ outcome = Rejected(EOFError)
    /\ configWrites = <<>>

-----------------------------------------------------------------------------
(* Properties of a request, checked under SpecHttp *)

\* the body is a text that is not JSON
NotJson(body) ==
    /\ "s" \in DOMAIN body
    /\ body.s \notin {JsonObjectText, JsonNullText}

\* the body as the caller gets it: what a JSON text stands for, else the body
\* as it was received
Delivered(body) ==
    IF "s" \notin DOMAIN body THEN body
    ELSE IF body.s = JsonObjectText THEN NotFoundResult
    ELSE IF body.s = JsonNullText THEN JsNull
    ELSE body

\* the poll ended with the error of the last response, without a retry
FailedUnretried ==
    /\ lastResp'.t = "err"
    /\ pollPc' = "settled"
    /\ promise' = Rejected(lastResp'.e)
    /\ timersSet' = timersSet
    /\ requests' = requests

\* C22 as stated: a response with a status outside 200..299, or with a body
\* that is not valid JSON, makes the request fail with an error that carries
\* the status code and the raw body, and the error is not retried.
C22_Non2xxOrBadJsonFails ==
    [][ \A h \in HttpResponses(pollKind), latency \in Latencies :
            (/\ httpResponse(h, latency)
             /\ h.errRequest = NoRequestError
             /\ (h.statusCode < 200 \/ h.statusCode > 299 \/ NotJson(h.body))) =>
                /\ FailedUnretried
                /\ lastResp'.e.statusCode = h.statusCode
                /\ lastResp'.e.body = h.body
      ]_vars

\* C22: a response with a status of 400 or more, or with a text body that is
\* not valid JSON, makes the request fail with an error that carries the
\* status code and the body, parsed when it is a JSON text and as received
\* otherwise; the poll rejects with that error and does not retry.  Any other
\* response, a 3xx status included, succeeds with the body.
C22_StatusOrJsonError ==
    [][ \A h \in HttpResponses(pollKind), latency \in Latencies :
            (httpResponse(h, latency) /\ h.errRequest = NoRequestError) =>
                IF h.statusCode >= 400 \/ NotJson(h.body)
                THEN /\ FailedUnretried
                     /\ lastResp'.e.statusCode = h.statusCode
                     /\ lastResp'.e.body = Delivered(h.body)
                ELSE lastResp' = [t |-> "ok", r |-> Delivered(h.body)]
      ]_vars

\* after a pending result and a retry, a 404 with a JSON text as body ended
\* the poll with an error that carries the status and the parsed body
C22_Witness ==
    /\ requests = 2
    /\ pendingSeen = 1
    /\ lastResp.t = "err"
    /\ "statusCode" \in DOMAIN lastResp.e
    /\ lastResp.e.statusCode = 404
    /\ lastResp.e.body = NotFoundResult
    /\ promise = Rejected(lastResp.e)
    /\ timers = 0

-----------------------------------------------------------------------------
(* Properties of the stored slug, checked under Spec *)

\* C23: tryStoreSlug never fails.  Whether the write to the git config
\* succeeds or fails, it resolves with the slug it was given; a failed write
\* adds exactly one error notice to the err stream, a successful one nothing.
\* A slug of the wrong format is not written at all and is handled likewise.
C23_StoreNeverFails ==
    [][ /\ (slugPc = "store" /\ slugPc' # "store") =>
               /\ slugPc' = "done"
               /\ carried' = carried
               /\ repoSlugP' = Resolved(IF Truthy(options.storeRepo) /\ Truthy(options.repo)
                                        THEN options.repo.s ELSE carried)
               /\ \/ /\ configWrites' = Append(configWrites, carried)
                     /\ errLog' = errLog
                  \/ /\ configWrites' = configWrites
                     /\ Len(errLog') = Len(errLog) + 1
                     /\ SubSeq(errLog', 1, Len(errLog)) = errLog
                     /\ errLog'[Len(errLog')].text = "Error storing slug in git config: "
        /\ \A slug \in {SlugAB, SlugCD} :
               /\ tryStoreSlug(slug).p = Pending
               /\ tryStoreSlug(slug).calls = <<GitConfigSet("travis.slug", slug)>>
               /\ tryStoreSlug(slug).log = <<>>
        /\ \A slug \in {NoSlash, SpacedSlug, <<>>} :
               /\ tryStoreSlug(slug).p = Resolved(slug)
               /\ tryStoreSlug(slug).calls = <<>>
               /\ Len(tryStoreSlug(slug).log) = 1
      ]_vars

\* the write of options.storeRepo failed: the check went on with the slug and
\* ended with a result, one notice on the err stream, nothing stored
C23_Witness ==
    /\ options.storeRepo = JsString(SlugCD)
    /\ ~Truthy(options.repo)
    /\ gitCalls # <<>>
    /\ gitCalls[1] = GitConfigSet(SLUG_CONFIG_NAME, SlugCD)
    /\ configWrites = <<>>
    /\ errLog = <<StoreErrorNotice(GitError(128))>>
    /\ apiCalls # <<>>
    /\ apiCalls[1].slug = SlugCD
    /\ outcome.k = "resolved"

-----------------------------------------------------------------------------
(* Properties of the command, checked under SpecCmd *)

UnsuccessfulStateNames == {"canceled", "errored", "failed"}

\* C24: for a successful status result with state s, the command's exit code
\* is 1 exactly when (--exit-code is set and s is canceled, errored or failed)
\* or (--fail-pending is set and s is created, queued, received or started),
\* and 0 in every other case; no error is passed to the callback.
C24_ExitCode ==
    (exit.called /\ outcome.k = "resolved") =>
        LET s == IF "repo" \in DOMAIN outcome.v THEN outcome.v.repo.last_build_state
                 ELSE outcome.v.branch.state
        IN  /\ exit.err = JsNull
            /\ exit.code \in {0, 1}
            /\ exit.code = 1 <=>
                   \/ command.exitCode /\ s \in UnsuccessfulStateNames
                   \/ command.failPending
                          /\ s \in {"created", "queued", "received", "started"}

\* a started build without --fail-pending but with --exit-code: exit code 0
C24_Witness ==
    /\ exit.called
    /\ outcome.k = "resolved"
    /\ "branch" \in DOMAIN outcome.v
    /\ outcome.v.branch.state = "started"
    /\ command.exitCode
    /\ ~command.failPending
    /\ exit.code = 0

\* C25: when travisStatus fails, the command's callback gets no error and the
\* exit code 1, nothing is written to the out stream, and one text is written
\* to the err stream: the repository-name hint when the error is a
\* SlugDetectionError, the error's message for every other error.
C25_FailureExitsWithOne ==
    (exit.called /\ outcome.k = "rejected") =>
        /\ exit = Exit(JsNull, 1)
        /\ outLog = <<>>
        /\ Len(errLog) = 1
        /\ IF outcome.e.name = "SlugDetectionError"
           THEN DOMAIN errLog[1] = {"hint", "color"} /\ errLog[1].hint = RepoNameHint
           ELSE DOMAIN errLog[1] = {"message", "color"}
                    /\ errLog[1].message = outcome.e.message

\* the slug could not be detected: the hint, not the error's message, is written
C25_Witness ==
    /\ exit = Exit(JsNull, 1)
    /\ outcome = Rejected(SlugDetectionError("No remotes"))
    /\ errLog = <<[hint |-> RepoNameHint, color |-> "none"]>>
    /\ outLog = <<>>

-----------------------------------------------------------------------------
(* Further properties of a poll, checked under SpecPoll *)

\* C26 as stated: a poll issues a request only when its wait value, as the
\* poll converted it, is a non-negative finite number.
C26_RequestOnlyIfFinite ==
    requests > 0 => (maxWaitMs.k = "fin" /\ maxWaitMs.n >= 0)

\* C26 amended: a poll issues a request only when its wait value, 0 for a
\* falsy wait and Number(wait) otherwise, is neither NaN nor negative: a
\* non-negative finite number or +Infinity, which is a budget that never
\* runs out.
C26_RequestOnlyIfNotNegative ==
    requests > 0 =>
        /\ maxWaitMs = (IF ToBoolean(wait) THEN ToNumber(wait) ELSE Fin(0))
        /\ \/ maxWaitMs.k = "fin" /\ maxWaitMs.n >= 0
           \/ maxWaitMs.k = "inf"

\* a poll with wait = Infinity issued a second request after a pending result
C26_Witness ==
    /\ wait = JsNumber(PosInf)
    /\ maxWaitMs = PosInf
    /\ requests = 2
    /\ pendingSeen = 1

\* C27: the delay before each retry is min(2 x the previous delay, 60000 ms,
\* wait - elapsed), the first being min(4000 ms, 60000 ms, wait - elapsed),
\* and the timer is set for that delay; when the budget does not bind
\* (it is infinite, or what remains of it is at least the ceiling), the
\* successive delays are 4000, 8000, 16000, 32000, 60000, 60000, ... ms.
C27_RetryDelays ==
    [][ timersSet' = timersSet + 1 =>
            LET doubled == IF timersSet = 0 THEN 4000 ELSE 2 * nextWaitMs
                elapsed == nowMs' - startMs
                capped == IF doubled <= 60000 THEN doubled ELSE 60000
            IN  /\ nextWaitMs' = (IF maxWaitMs.k = "fin" /\ maxWaitMs.n - elapsed < capped
                                  THEN maxWaitMs.n - elapsed ELSE capped)
                /\ nextWaitMs' > 0
                /\ timerDue' = nowMs' + nextWaitMs'
                /\ (maxWaitMs.k = "inf"
                        \/ (maxWaitMs.k = "fin" /\ maxWaitMs.n - elapsed >= 60000)) =>
                       nextWaitMs' = BackoffDelay(timersSet')
      ]_vars

\* the fifth retry of a poll without a finite budget waits for the ceiling,
\* not for twice the 32000 ms of the fourth
C27_Witness ==
    /\ maxWaitMs = PosInf
    /\ timersSet = 5
    /\ pollPc = "sleeping"
    /\ nextWaitMs = 60000

\* C28: the wait budget is examined only when a pending result has just been
\* received.  A request in flight is ended by its response only, and a poll
\* that has issued its request is settled by a response only; an error is
\* delivered as the poll's rejection and a result that is not pending as its
\* value, whether or not the budget had run out when it arrived.
C28_LateResponseDelivered ==
    [][ /\ inFlight' < inFlight => responses' = responses + 1
        /\ (pollPc # "start" /\ promise' # promise) => responses' = responses + 1
        /\ responses' = responses + 1 =>
               /\ lastResp'.t = "err" => promise' = Rejected(lastResp'.e)
               /\ IsFinalResponse(pollKind, lastResp') => promise' = Resolved(lastResp'.r)
      ]_vars

\* a passed result that arrived 3000 ms after a budget of 4000 ms had run out
\* is the poll's value
C28_Witness ==
    /\ maxWaitMs = Fin(4000)
    /\ nowMs - startMs = 7000
    /\ responses = 1
    /\ lastResp = [t |-> "ok", r |-> ApiResult(pollKind, "passed")]
    /\ promise = Resolved(ApiResult(pollKind, "passed"))

\* C29: if the pending classifier throws on a received result (the result has
\* no entry of the polled kind) during a poll with wait > 0, the poll rejects
\* with the thrown error, sets no timer, and issues no further request.
C29_ClassifierThrowRejects ==
    [][ /\ ( /\ responses' = responses + 1
             /\ lastResp'.t = "ok"
             /\ pollKind \notin DOMAIN lastResp'.r
             /\ (maxWaitMs.k = "inf" \/ (maxWaitMs.k = "fin" /\ maxWaitMs.n > 0)) ) =>
               /\ promise' = Rejected(ClassifierError)
               /\ pollPc' = "settled"
               /\ timers' = 0
               /\ inFlight' = 0
               /\ requests' = requests
        /\ promise = Rejected(ClassifierError) =>
               /\ requests' = requests
               /\ timersSet' = timersSet
               /\ promise' = promise
      ]_vars

\* the retry of a poll was answered with a body that has no entry of the
\* polled kind: the poll is rejected after its two requests
C29_Witness ==
    /\ promise = Rejected(ClassifierError)
    /\ lastResp = [t |-> "ok", r |-> NotFoundResult]
    /\ requests = 2
    /\ responses = 2
    /\ inFlight = 0
    /\ timers = 0

-----------------------------------------------------------------------------
(* Properties of the local commit, checked under Spec *)

\* a full hash in upper case, and an abbreviation of Sha1
UpperSha == <<"1", "A">>
ShortSha == <<"1">>

\* C30: the local commit record has name equal to the user's reference
\* exactly when the resolved hash differs textually from that reference (a
\* tag, an abbreviated hash, a hash in another case); when the reference
\* already is the full hash, sha equals the reference and name is unset.
C30_NameIffHashDiffers ==
    /\ localCommitP.k = "resolved" =>
           LET ref == options.commit.s
               localCommit == localCommitP.v
           IN  /\ "name" \in DOMAIN localCommit <=> localCommit.sha # ref
               /\ "name" \in DOMAIN localCommit => localCommit.name = ref
               /\ ref = Sha1 => localCommit = [sha |-> ref]
               /\ ref = TagName => localCommit = [sha |-> Sha1, name |-> TagName]
    /\ \A ref \in {TagName, UpperSha, ShortSha, Sha2} :
           LocalCommit(Sha1, ref) = [sha |-> Sha1, name |-> ref]
    /\ \A ref \in {Sha1, Sha2} : LocalCommit(ref, ref) = [sha |-> ref]

\* the reference was the full hash: the record has the hash and no name
C30_Witness ==
    /\ options.commit = JsString(Sha1)
    /\ hashPc = "done"
    /\ gitCalls # <<>>
    /\ localCommitP = Resolved([sha |-> Sha1])

-----------------------------------------------------------------------------
(* Properties of the slug that is loaded, found and confirmed, checked under Spec *)

\* C31: loadSlug resolves with null (no stored slug) when `git config --get`
\* exits with code 1, so that the slug is detected next, and fails with the
\* git error, which ends the slug resolution, for every other non-zero exit
\* code.
C31_LoadSlugExitCodes ==
    [][ \A code \in GitExitCodes :
            loadSlug(code) =>
                /\ code = 1 =>
                       /\ repoSlugP' = Pending
                       /\ slugPc' = "detectBranch"
                       /\ gitCalls' = Append(gitCalls, GitSymbolicRef)
                /\ code \notin {0, 1} =>
                       /\ repoSlugP' = Rejected([name |-> "Error",
                                                 message |-> "Command failed: git",
                                                 code |-> code])
                       /\ slugPc' = "done"
                       /\ gitCalls' = gitCalls
                /\ code = 0 => carried' = TrimRight(configSlug)
      ]_vars

\* git config --get failed with exit code 2: the status check fails with that
\* error after the one git command
C31_Witness ==
    /\ outcome = Rejected(GitError(2))
    /\ gitCalls = <<GitConfigGet(SLUG_CONFIG_NAME, <<>>)>>
    /\ apiCalls = <<>>

\* the positions of the `git config travis.slug <slug>` commands among the git
\* commands run
ConfigSets(calls) == {i \in DOMAIN calls : calls[i].cmd = "config"}

\* the slug is neither given nor to be stored: it is found
SlugIsFound(opts) == ~Truthy(opts.repo) /\ ~Truthy(opts.storeRepo)

\* C32: with neither repo nor storeRepo given, the found slug is written to
\* the git config, once and before the remote query, exactly when
\* options.interactive is set; without interactive nothing is written to the
\* git config.  (The write is the git command; when that command fails nothing
\* is stored and a notice is written instead.)
C32_FoundSlugStoredIffInteractive ==
    [][ (pc' # "start" /\ SlugIsFound(options')) =>
            /\ Cardinality(ConfigSets(gitCalls')) <= 1
            /\ Len(configWrites') <= 1
            /\ ~Truthy(options'.interactive) =>
                   ConfigSets(gitCalls') = {} /\ configWrites' = <<>> /\ configSlug' = configSlug
            /\ apiCalls' # <<>> =>
                   /\ Cardinality(ConfigSets(gitCalls')) = 1 <=> Truthy(options'.interactive)
                   /\ \A i \in ConfigSets(gitCalls') :
                          gitCalls'[i] = GitConfigSet("travis.slug", apiCalls'[1].slug)
                   /\ configWrites' \in {<<>>, <<apiCalls'[1].slug>>}
                   /\ (Truthy(options'.interactive) /\ configWrites' = <<>>) =>
                          errLog' # <<>> /\ errLog'[Len(errLog')] = StoreErrorNotice(GitError(128))
            /\ (apiCalls = <<>> /\ apiCalls' # <<>> /\ Truthy(options'.interactive)) =>
                   /\ slugPc \in {"store", "done"}
                   /\ ConfigSets(gitCalls) # {}
      ]_vars

\* an interactive check found the slug from the remote, the user agreed, the
\* slug was stored and then queried
C32_Witness ==
    /\ SlugIsFound(options)
    /\ Truthy(options.interactive)
    /\ configWrites = <<SlugAB>>
    /\ Cardinality(ConfigSets(gitCalls)) = 1
    /\ \E i \in DOMAIN gitCalls : gitCalls[i].cmd = "ls-remote --get-url"
    /\ apiCalls # <<>>
    /\ apiCalls[1].slug = SlugAB
    /\ outcome.k = "resolved"

\* the texts written to the err stream that are 'detected repository as' notices
DetectedNotices(log) == {i \in DOMAIN log : log[i].text = "detected repository as "}

\* C33: after a successful autodetection, interactive mode asks the user to
\* confirm the detected slug and writes no notice, while non-interactive mode
\* writes the 'detected repository as <slug>' notice to the err stream and
\* never prompts nor reads the input stream.
C33_ConfirmOrNotify ==
    [][ /\ \A failed \in BOOLEAN, remoteUrl \in RemoteUrls :
               ( /\ detectSlugUrl(failed, remoteUrl)
                 /\ ~failed
                 /\ extractSlug(gitUrlPath(remoteUrl)).match ) =>
                   LET slug == extractSlug(gitUrlPath(remoteUrl)).slug
                   IN  IF Truthy(options.interactive)
                       THEN /\ slugPc' = "agree"
                            /\ carried' = slug
                            /\ repoSlugP' = Pending
                            /\ errLog' = Append(errLog, [text |-> "Detected repository as ... is this correct? ",
                                                         about |-> slug])
                       ELSE /\ slugPc' = "done"
                            /\ errLog' = Append(errLog, [text |-> "detected repository as ",
                                                         about |-> slug])
        /\ Truthy(options'.interactive) => DetectedNotices(errLog') = {}
        /\ ~Truthy(options'.interactive) =>
               /\ slugPc' \notin {"agree", "ask"}
               /\ linesLeft' = MaxLines
               /\ \A i \in DOMAIN errLog' :
                      errLog'[i].text \notin {"Detected repository as ... is this correct? ",
                                              "Repository slug (owner/name): "}
      ]_vars

\* a check that is not interactive detected the slug from the remote, wrote
\* the notice and queried the slug without reading a line
C33_Witness ==
    /\ ~Truthy(options.interactive)
    /\ SlugIsFound(options)
    /\ errLog = <<DetectedNotice(SlugAB)>>
    /\ linesLeft = MaxLines
    /\ apiCalls # <<>>
    /\ apiCalls[1].slug = SlugAB

\* answers that say yes, answers that say no, and answers that are neither
YesLines == {<<"y">>, <<"Y">>, <<"y", "e", "s">>, <<"Y", "E", "S">>}
NoLines == {<<"n">>, <<"N">>, <<"n", "o">>, <<"N", "o">>}
InvalidLines ==
    {<<>>, <<" ">>, <<"a", "b">>, <<"c", "/", "d", " ">>, <<" ", "y">>, <<"n", "o", "p", "e">>,
     <<"o", "k">>, <<"1">>}

-----------------------------------------------------------------------------
(* Properties of the caller's objects, checked under SpecRequests *)

\* C35: travisStatus never modifies the caller's options object nor the
\* caller's requestOpts object, also when it injects its own keep-alive agent
\* into the request options it uses: the agent is set on a copy of the
\* caller's requestOpts, and that copy is set on a copy of the options.
C35_CallerObjectsUntouched ==
    pc # "start" =>
        LET after == travisStatusHeap(options)
            before == CallerHeap(options)
        IN  /\ after.h.callerOptions = before.callerOptions
            /\ after.h.callerRequestOpts = before.callerRequestOpts
            /\ (agent # NoAgent) =>
                   /\ after.options = "ownOptions"
                   /\ after.requestOpts = "ownRequestOpts"
                   /\ after.h.ownOptions.requestOpts = Ref("ownRequestOpts")
                   /\ after.h.ownRequestOpts.agent = agent
                   /\ clientOpts \in {NoClient, after.h.ownRequestOpts}
                   /\ options.requestOpts # JsUndefined =>
                          \A key \in DOMAIN options.requestOpts \ {"agent"} :
                              after.h.ownRequestOpts[key] = options.requestOpts[key]
            /\ (agent = NoAgent /\ clientOpts # NoClient) =>
                   clientOpts = options.requestOpts

\* the caller gave request options that choose no agent: the client got a
\* copy with the agent, the caller's object has none
C35_Witness ==
    /\ pc = "done"
    /\ outcome.k = "resolved"
    /\ options.requestOpts = [t |-> "object", timeout |-> JsNumber(5)]
    /\ agent # NoAgent
    /\ clientOpts = [t |-> "object", timeout |-> JsNumber(5), agent |-> agent]
    /\ travisStatusHeap(options).h.callerRequestOpts = [t |-> "object", timeout |-> JsNumber(5)]

-----------------------------------------------------------------------------
(* Properties of the commit path, checked under SpecCommit *)

\* the build query has been made
BuildQueryMade == \E i \in 1..Len(apiCalls) : apiCalls[i].op = "getBuild"

\* C36: in the commit path the repository query is the only one that is
\* given the caller's wait; the build query sends one request, sets no retry
\* timer whatever the caller's wait is, and the result it receives, pending
\* or not, is what is merged over the repository's and checked against the
\* commit.
C36_BuildQueriedOnce ==
    /\ requests <= 1
    /\ timersSet = 0
    /\ \A i \in 1..Len(apiCalls) :
           QueryOptionsWait(apiCalls[i], wait) =
               IF apiCalls[i].op = "getRepo" THEN wait ELSE JsUndefined
    /\ BuildQueryMade =>
           /\ requests = 1
           /\ maxWaitMs = Fin(0)
           /\ pollPc \in {"polling", "settled"}
    /\ (BuildQueryMade /\ pollPc = "settled" /\ lastResp.t = "ok") =>
           /\ promise = Resolved(lastResp.r)
           /\ outcome = CheckedResult(Pending,
                                      Resolved(Merge(repoResult, lastResp.r)),
                                      localCommitP)

\* with a wait of ten seconds a build that has only started is the result
C36_Witness ==
    /\ wait = JsNumber(Fin(10000))
    /\ BuildQueryMade
    /\ pollPc = "settled"
    /\ requests = 1
    /\ lastResp.t = "ok"
    /\ "build" \in DOMAIN lastResp.r
    /\ lastResp.r.build.state = "started"
    /\ outcome.k = "resolved"
    /\ outcome.v.build.state = "started"

-----------------------------------------------------------------------------
(* Properties of a poll whose requests complete, checked under FairSpecPoll *)

\* the wait is one that queryWithWait accepts and reads as a finite number
FiniteWait == MaxWaitOf(wait).k = "fin" /\ ~IsNegative(MaxWaitOf(wait))

\* C37: with a finite wait a poll whose requests all complete eventually
\* settles; meanwhile every retry is scheduled after a delay greater than 0
\* and for a time no later than the start of the poll plus the wait.
C37_FiniteWaitSettles ==
    /\ [](( /\ FiniteWait
            /\ pollPc = "sleeping" ) =>
              /\ nextWaitMs > 0
              /\ timerDue = nowMs + nextWaitMs
              /\ timerDue <= startMs + maxWaitMs.n)
    /\ (FiniteWait /\ pollPc # "settled") ~> (pollPc = "settled")

\* a poll with a wait of 200 seconds settles after its last retry, which was
\* scheduled for the very end of the wait
C37_Witness ==
    /\ wait = JsNumber(Fin(200000))
    /\ pollPc = "settled"
    /\ timersFired >= 4
    /\ timerDue = startMs + 200000
    /\ promise.k = "resolved"

-----------------------------------------------------------------------------
(* Properties of the lines read from the input stream, checked under
   SpecPrompt *)

\* the text a waiting prompt has before it: what it has read so far and what
\* the stream holds
TextAhead == response \o buffered

\* C38: whenever a prompt reads from the stream, with a newline in the text
\* before it the prompt resolves with the text up to the first newline (the
\* question reacts to exactly that line) and the text after that newline is
\* what the stream holds for the next read; without a newline the prompt keeps
\* all of the text and goes on waiting.  No character is dropped or repeated.
C38_LinesInOrder ==
    [][ Len(buffered') < Len(buffered) =>
            LET lf == FirstIndex(TextAhead, 1, {"\n"})
            IN  IF lf = 0
                THEN /\ response' = TextAhead
                     /\ buffered' = <<>>
                     /\ UNCHANGED <<slugPc, carried, repoSlugP, errLog, gitCalls>>
                ELSE /\ response' = <<>>
                     /\ buffered' = SubSeq(TextAhead, lf + 1, Len(TextAhead))
                     /\ SlugStepOf(answered(slugPc, SubSeq(TextAhead, 1, lf - 1),
                                            carried, options.interactive))
      ]_vars

\* "n" and "c/" came in one chunk: the first prompt took "n", the next one
\* read "c/" and then "d" from a second chunk
C38_Witness ==
    /\ chunksLeft = 0
    /\ buffered = <<>>
    /\ carried = <<"c", "/", "d">>
    /\ slugPc \in {"store", "done"}

-----------------------------------------------------------------------------
(* Properties of the listeners of a prompt, checked under SpecPrompt *)

\* C39 as stated: no listener that a settled prompt registered remains on the
\* input stream.
C39_NoListenerRemains == listeners.left = NoneRegistered

\* C39, what the code ensures: the 'end' and 'error' listeners of a settled
\* prompt never remain, and no prompt waits with listeners once the slug is
\* settled; instances of the 'readable' listener remain exactly when the
\* prompt had registered it more than once, and then all but one of them do.
C39_OneInstanceRemoved ==
    /\ [](/\ listeners.left.end = 0
          /\ listeners.left.error = 0
          /\ ~Prompting => listeners.own = NoneRegistered)
    /\ [][ /\ listeners'.left # listeners.left =>
                 /\ listeners.own.readable >= 2
                 /\ listeners'.left.readable =
                        listeners.left.readable + listeners.own.readable - 1
           /\ (Prompting /\ listeners.own.readable >= 2 /\ slugPc' # slugPc) =>
                 listeners'.left # listeners.left
         ]_vars

\* the answer came as "y" and then a newline: the prompt has resolved and one
\* 'readable' listener of it is still on the stream
C39_Witness ==
    /\ listeners.left.readable = 1
    /\ listeners.own = NoneRegistered
    /\ slugPc \in {"store", "done"}
    /\ chunksLeft = 0
    /\ ~ended

====
